---- MODULE Spec2Model ----
(***************************************************************************)
(* A model of moreniius: the NeXus Structure navigator                     *)
(* (src/src/moreniius/path_navigator.py, NavSpec), the transformation      *)
(* chain synthesis (src/src/moreniius/mccode/{instr,orientation,mccode}.py,*)
(* SynSpec and LineSpec), NXInstr.expr2nx on its own (ResSpec) and the     *)
(* choice of the origin and the component graph at construction (ConSpec). *)
(*                                                                         *)
(* Strings are sequences of one-character strings, so that the path        *)
(* formatting of get_path ('/' + '/'.join) and the path parsing of         *)
(* __getitem__ (strip('/'), split('/'), startswith('@')) are computed and  *)
(* not assumed to be inverse to each other.                                *)
(***************************************************************************)
EXTENDS Integers, Sequences, FiniteSets, TLC

VARIABLES structure, nav, last, nx, index, status, call, absolute_depends_on, instr, resolved,
          components, origin_name, origin, forward_graph, reverse_graph, mccode, log

navVars == <<structure, nav, last>>

synVars == <<nx, index, status, call, absolute_depends_on>>

resVars == <<instr, resolved>>

conVars == <<components, origin_name, origin, forward_graph, reverse_graph, mccode, log>>

vars == <<structure, nav, last, nx, index, status, call, absolute_depends_on, instr, resolved,
          components, origin_name, origin, forward_graph, reverse_graph, mccode, log>>

(***************************************************************************)
(* Bounds                                                                  *)
(***************************************************************************)
\* number of records below the wrapped root of a NeXus Structure tree
MaxNodes == 3
\* number of segments of the paths handed to the Navigator
MaxSegs == 2
\* number of Parts in the stacks of one component (position and rotation together)
MaxParts == 2

(***************************************************************************)
(* Python str helpers                                                      *)
(***************************************************************************)
None == <<"None">>

RECURSIVE lstrip(_)
lstrip(s) == IF s # <<>> /\ Head(s) = "/" THEN lstrip(Tail(s)) ELSE s

RECURSIVE rstrip(_)
rstrip(s) == IF s # <<>> /\ s[Len(s)] = "/" THEN rstrip(SubSeq(s, 1, Len(s) - 1)) ELSE s

\* path.strip('/')
strip(s) == rstrip(lstrip(s))

RECURSIVE split(_)
\* path.split('/')
split(s) ==
  IF \A i \in 1..Len(s) : s[i] # "/" THEN <<s>>
  ELSE LET i == CHOOSE j \in 1..Len(s) : s[j] = "/" /\ \A k \in 1..(j - 1) : s[k] # "/"
       IN  <<SubSeq(s, 1, i - 1)>> \o split(SubSeq(s, i + 1, Len(s)))

RECURSIVE join(_)
\* '/'.join(parts)
join(parts) ==
  IF parts = <<>> THEN <<>>
  ELSE IF Len(parts) = 1 THEN parts[1]
  ELSE parts[1] \o <<"/">> \o join(Tail(parts))

\* target_name.startswith('@')
startswith_at(s) == s # <<>> /\ Head(s) = "@"

\* Python truthiness of a name obtained with dict.get
truthy(s) == s # None /\ s # <<>>

(***************************************************************************)
(* The tree: record 0 is the dict handed to the first Navigator (it has    *)
(* 'children' and 'attributes' but no 'name'); records 1..Len(t) are the   *)
(* groups, datasets, links and attribute records below it, numbered in     *)
(* document order.  A record number is the identity of the Python dict.    *)
(***************************************************************************)
Root == 0

\* a dict that is equal in value to a record of the tree but is not part of it
Foreign == 0 - 1

KindOf(t, n) == IF n = Root THEN "root" ELSE t[n].kind

\* 'children' in record
has_children(t, n) == KindOf(t, n) \in {"root", "group"}

\* record.get('children', [])
children(t, n) ==
  SelectSeq([i \in 1..Len(t) |-> i], LAMBDA i : t[i].parent = n /\ t[i].kind # "attr")

\* record.get('attributes', [])
attributes(t, n) ==
  SelectSeq([i \in 1..Len(t) |-> i], LAMBDA i : t[i].parent = n /\ t[i].kind = "attr")

\* record.get('name')
get_name(t, n) == IF n # Root /\ t[n].kind \in {"group", "attr"} THEN t[n].name ELSE None

\* record.get('module')
get_module(t, n) == IF n # Root /\ t[n].kind \in {"dataset", "link"} THEN t[n].kind ELSE "None"

\* record.get('config', {}).get('name')
config_name(t, n) == IF n # Root /\ t[n].kind \in {"dataset", "link"} THEN t[n].name ELSE None

(***************************************************************************)
(* Results of the Navigator's operations.  type is "navigator" (a          *)
(* Navigator wrapping record node; same tells `return self` from a newly   *)
(* built one), "raw" (the record node itself), "value" (a plain value that *)
(* is no record of the tree), "KeyError" (err tells the two messages       *)
(* apart: "not_found" and "malformed"; component and at are the message's  *)
(* parts).                                                                 *)
(***************************************************************************)
NoNode == 0 - 2

Res(type, node, same, err, component, at) ==
  [type |-> type, node |-> node, same |-> same, err |-> err, component |-> component, at |-> at]

Found(n) == Res("found", n, FALSE, "none", <<>>, <<>>)

\* the malformed-path error with the words of the not-found error
MalformedError_as_not_found(target_name) ==
  Res("KeyError", NoNode, FALSE, "not_found", target_name, <<>>)

\* KeyError(f"Attributes must be at the end of the path: {target_name}")
MalformedError(target_name) == Res("KeyError", NoNode, FALSE, "malformed", target_name, <<>>)

\* the missing attribute reported with the words of the malformed-path error
AttributeNotFound_as_malformed(attr_name) ==
  Res("KeyError", NoNode, FALSE, "malformed", <<"@">> \o attr_name, <<>>)

\* KeyError(f"Attribute '@{attr_name}' not found")
AttributeNotFound(attr_name) == Res("KeyError", NoNode, FALSE, "not_found", <<"@">> \o attr_name, <<>>)

\* KeyError(f"Path component '{target_name}' not found at /{path_so_far}")
PathNotFound(target_name, path_so_far) ==
  Res("KeyError", NoNode, FALSE, "not_found", target_name, <<"/">> \o path_so_far)

\* the test of the children loop of _navigate: group name, dataset name, link name
child_matches(t, child, target_name) ==
  \/ get_name(t, child) = target_name
  \/ get_module(t, child) = "dataset" /\ config_name(t, child) = target_name
  \/ get_module(t, child) = "link" /\ config_name(t, child) = target_name

\* a loop that goes on to the last hit
last_hit(hits) == IF hits = <<>> THEN NoNode ELSE hits[Len(hits)]

\* the record at which a `for ... : if ...: return` loop over hits returns, or NoNode
first_hit(hits) == IF hits = <<>> THEN NoNode ELSE Head(hits)

\* _navigate that goes on to the next child bearing the name when the rest of
\* the path is not found below the first
RECURSIVE _navigate_backtracking(_, _, _)
_navigate_backtracking(t, current, parts) ==
  IF parts = <<>> THEN Found(current)
  ELSE
    LET target_name == Head(parts)
        remaining == Tail(parts)
    IN  IF startswith_at(target_name)
        THEN LET attr_name == Tail(target_name)
                 attr == first_hit(SelectSeq(attributes(t, current), LAMBDA a : get_name(t, a) = attr_name))
             IN  IF remaining # <<>> THEN MalformedError(target_name)
                 ELSE IF attr # NoNode THEN Found(attr)
                 ELSE AttributeNotFound(attr_name)
        ELSE LET hits == SelectSeq(children(t, current), LAMBDA c : child_matches(t, c, target_name))
                 leading == SelectSeq(hits, LAMBDA c : _navigate_backtracking(t, c, remaining).type = "found")
             IN  IF leading # <<>> THEN _navigate_backtracking(t, Head(leading), remaining)
                 ELSE IF hits # <<>> THEN _navigate_backtracking(t, Head(hits), remaining)
                 ELSE PathNotFound(target_name, join(SubSeq(parts, 1, Len(parts) - Len(remaining))))

RECURSIVE _navigate(_, _, _)
_navigate(t, current, parts) ==
  IF parts = <<>> THEN Found(current)
  ELSE
    LET target_name == Head(parts)
        remaining == Tail(parts)
    IN  IF startswith_at(target_name)
        THEN LET attr_name == Tail(target_name)
                 attr == first_hit(SelectSeq(attributes(t, current), LAMBDA a : get_name(t, a) = attr_name))
             IN  IF remaining # <<>> THEN MalformedError(target_name)
                 ELSE IF attr # NoNode THEN Found(attr)
                 ELSE AttributeNotFound(attr_name)
        ELSE LET child == first_hit(SelectSeq(children(t, current), LAMBDA c : child_matches(t, c, target_name)))
             IN  IF child # NoNode THEN _navigate(t, child, remaining)
                 ELSE PathNotFound(target_name, join(SubSeq(parts, 1, Len(parts) - Len(remaining))))

\* __getitem__ wrapping self._structure instead of the record it resolved
getitem_wraps_self(t, self, path) ==
  IF path = <<>> THEN Res("navigator", self, TRUE, "none", <<>>, <<>>)
  ELSE IF strip(path) = <<>> THEN Res("navigator", self, TRUE, "none", <<>>, <<>>)
  ELSE
    LET result == _navigate(t, self, split(strip(path)))
    IN  IF result.type = "KeyError" THEN result
        ELSE IF has_children(t, result.node)
             THEN Res("navigator", self, FALSE, "none", <<>>, <<>>)
             ELSE Res("raw", result.node, FALSE, "none", <<>>, <<>>)

\* __getitem__ without the wrapping of records that have 'children'
getitem_never_wraps(t, self, path) ==
  IF path = <<>> THEN Res("navigator", self, TRUE, "none", <<>>, <<>>)
  ELSE IF strip(path) = <<>> THEN Res("navigator", self, TRUE, "none", <<>>, <<>>)
  ELSE
    LET result == _navigate(t, self, split(strip(path)))
    IN  IF result.type = "KeyError" THEN result
        ELSE Res("raw", result.node, FALSE, "none", <<>>, <<>>)

\* NexusStructureNavigator.__getitem__ of the Navigator wrapping record self
getitem(t, self, path) ==
  IF path = <<>> THEN Res("navigator", self, TRUE, "none", <<>>, <<>>)
  ELSE IF strip(path) = <<>> THEN Res("navigator", self, TRUE, "none", <<>>, <<>>)
  ELSE
    LET result == _navigate(t, self, split(strip(path)))
    IN  IF result.type = "KeyError" THEN result
        ELSE IF has_children(t, result.node)
             THEN Res("navigator", result.node, FALSE, "none", <<>>, <<>>)
             ELSE Res("raw", result.node, FALSE, "none", <<>>, <<>>)

\* NexusStructureNavigator.get
get(t, self, path, default) ==
  LET r == getitem(t, self, path) IN IF r.type = "KeyError" THEN default ELSE r

\* exists answering True from its except branch
exists_true_on_error(t, self, path) == TRUE

\* NexusStructureNavigator.exists
exists(t, self, path) ==
  LET r == getitem(t, self, path) IN IF r.type = "KeyError" THEN FALSE ELSE TRUE

RECURSIVE _find_recursive(_, _, _, _)
\* the records _find_recursive appends to results, in the order it appends them
_find_recursive(t, current, name, include_attributes) ==
  LET kids == children(t, current)
      RECURSIVE below(_)
      below(k) == IF k > Len(kids) THEN <<>>
                  ELSE _find_recursive(t, kids[k], name, include_attributes) \o below(k + 1)
  IN  (IF get_name(t, current) = name THEN <<current>> ELSE <<>>)
      \o (IF get_module(t, current) \in {"dataset", "link"} /\ config_name(t, current) = name
          THEN <<current>> ELSE <<>>)
      \o (IF include_attributes
          THEN SelectSeq(attributes(t, current), LAMBDA a : get_name(t, a) = name)
          ELSE <<>>)
      \o below(1)

\* find_all that never looks at attributes
find_all_without_attributes(t, self, name, include_attributes) ==
  _find_recursive(t, self, name, FALSE)

\* NexusStructureNavigator.find_all
find_all(t, self, name, include_attributes) == _find_recursive(t, self, name, include_attributes)

RECURSIVE _build_path(_, _, _)
\* [found, path]: the return value, and what the call has left appended to `path`
_build_path(t, current, target) ==
  LET attr == first_hit(SelectSeq(attributes(t, current), LAMBDA a : a = target /\ truthy(get_name(t, a))))
      kids == children(t, current)
      child_name(c) == IF ~truthy(get_name(t, c)) /\ get_module(t, c) \in {"dataset", "link"}
                       THEN config_name(t, c) ELSE get_name(t, c)
      RECURSIVE loop(_)
      loop(k) ==
        IF k > Len(kids) THEN [found |-> FALSE, path |-> <<>>]
        ELSE IF truthy(child_name(kids[k]))
             THEN LET r == _build_path(t, kids[k], target)
                  IN  IF r.found THEN [found |-> TRUE, path |-> <<child_name(kids[k])>> \o r.path]
                      ELSE loop(k + 1)
             ELSE loop(k + 1)
  IN  IF current = target THEN [found |-> TRUE, path |-> <<>>]
      ELSE IF attr # NoNode THEN [found |-> TRUE, path |-> <<(<<"@">> \o get_name(t, attr))>>]
      ELSE loop(1)

RECURSIVE reversed(_)
reversed(seq) == IF seq = <<>> THEN <<>> ELSE Append(reversed(Tail(seq)), Head(seq))

\* get_path joining the collected names innermost first
get_path_innermost_first(t, self, element) ==
  LET r == _build_path(t, self, element)
  IN  IF r.found
      THEN (IF r.path # <<>> THEN <<"/">> \o join(reversed(r.path)) ELSE <<"/">>)
      ELSE None

\* get_path with == in the place of `is`: the search stops at the first
\* record that has the kind and the name of the element and, like it, no
\* records below it
get_path_by_value(t, self, element) ==
  LET leaf(n) == \A m \in 1..Len(t) : t[m].parent # n
      equal(n) == \/ n = element
                  \/ /\ element \in 1..Len(t) /\ leaf(n) /\ leaf(element)
                     /\ t[n].kind = t[element].kind /\ t[n].name = t[element].name
      hits == {n \in 1..Len(t) : equal(n) /\ _build_path(t, self, n).found}
      target == IF hits = {} THEN element ELSE CHOOSE n \in hits : \A m \in hits : n <= m
      r == _build_path(t, self, target)
  IN  IF r.found
      THEN (IF r.path # <<>> THEN <<"/">> \o join(r.path) ELSE <<"/">>)
      ELSE None

\* NexusStructureNavigator.get_path: the path string, or None
get_path(t, self, element) ==
  LET r == _build_path(t, self, element)
  IN  IF r.found
      THEN (IF r.path # <<>> THEN <<"/">> \o join(r.path) ELSE <<"/">>)
      ELSE None

\* the keys of a raw record, for Python's dict[key] on what a lookup returned
dict_keys(t, n) ==
  CASE KindOf(t, n) = "dataset" -> {<<"m","o","d","u","l","e">>, <<"c","o","n","f","i","g">>}
    [] KindOf(t, n) = "link" -> {<<"m","o","d","u","l","e">>, <<"c","o","n","f","i","g">>}
    [] KindOf(t, n) = "attr" -> {<<"n","a","m","e">>, <<"d","t","y","p","e">>, <<"v","a","l","u","e","s">>}
    [] OTHER -> {}

\* obj[key], where obj is what a lookup returned: a Navigator or a raw record
subscript(t, obj, key) ==
  IF obj.type = "navigator" THEN getitem(t, obj.node, key)
  ELSE IF key \in dict_keys(t, obj.node) THEN Res("value", obj.node, FALSE, "none", key, <<>>)
  ELSE Res("KeyError", NoNode, FALSE, "dict", key, <<>>)

(***************************************************************************)
(* Inputs: the trees a Navigator is constructed on, and the arguments of   *)
(* its operations.                                                         *)
(***************************************************************************)
\* kind and name of a record; two records with the same label, parent and
\* (no) descendants are equal in value and differ in identity only
Labels ==
  { [kind |-> "group", name |-> <<"a">>], [kind |-> "group", name |-> <<"b">>],
    [kind |-> "dataset", name |-> <<"a">>], [kind |-> "link", name |-> <<"a">>],
    [kind |-> "attr", name |-> <<"a">>] }

\* children live in the 'children' list of the root or of a group; attribute
\* records live in the 'attributes' list of the root, a group or a dataset
\* (records are numbered breadth first, which fixes no document order)
WellFormed(t) ==
  \A i \in 1..Len(t) :
    /\ t[i].parent < i
    /\ i > 1 => t[i - 1].parent <= t[i].parent
    /\ t[i].kind # "attr" => KindOf(t, t[i].parent) \in {"root", "group"}
    /\ t[i].kind = "attr" => KindOf(t, t[i].parent) \in {"root", "group", "dataset"}

Trees ==
  { t \in [1..MaxNodes -> [kind : {l.kind : l \in Labels}, name : {l.name : l \in Labels},
                           parent : 0..(MaxNodes - 1)]] :
      /\ \A i \in 1..MaxNodes : [kind |-> t[i].kind, name |-> t[i].name] \in Labels
      /\ WellFormed(t) }

Segments == {<<"a">>, <<"b">>, <<"@", "a">>}

RECURSIVE SegSeqs(_)
\* the non-empty sequences of at most n segments
SegSeqs(n) ==
  IF n = 0 THEN {}
  ELSE LET shorter == SegSeqs(n - 1)
       IN  {<<s>> : s \in Segments} \cup shorter \cup {Append(p, s) : p \in shorter, s \in Segments}

\* the last sets: paths with a segment after an '@' segment that is not the
\* first, and the attribute no record has
Paths ==
  {<<>>, <<"/">>}
    \cup {join(p) : p \in SegSeqs(MaxSegs)}
    \cup {<<"/">> \o join(p) \o <<"/">> : p \in SegSeqs(1)}
    \cup {join(<<s, (<<"@", "a">>), (<<"a">>)>>) : s \in Segments}
    \cup {<<"@", "b">>}

Names == {<<"a">>, <<"b">>}

\* a default that is no record of the tree
DefaultValue == Res("value", NoNode, FALSE, "none", <<"D">>, <<>>)

\* the defaults handed to get: a fresh value, or a record of the tree the caller holds
Defaults(t) ==
  {DefaultValue}
    \cup {Res("raw", n, FALSE, "none", <<>>, <<>>) :
            n \in {i \in 1..Len(t) : ~has_children(t, i) /\ \A j \in 1..(i - 1) : has_children(t, j)}}

\* the caller is between two calls
Idle == last.op = "idle"

\* the records handed to get_path
Elements(t) == (0..Len(t)) \cup {Foreign}

(***************************************************************************)
(* Construction of NXInstr and of NXMcCode: the choice of the origin and   *)
(* the graph of the components.  components is instr.components, in        *)
(* declaration order; origin_name, origin, forward_graph and reverse_graph *)
(* are the fields of the NXInstr, mccode is the NXMcCode made over it, log *)
(* what has been logged.                                                   *)
(***************************************************************************)
\* number of components of an instrument
MaxComponents == 3

\* a component instance: its name and the category of its type
Component(name, category) == [name |-> name, category |-> category]

\* x.orientation of the i-th component
orientation(i) == [component |-> i]

\* Orient(): the identity
Orient == [component |-> 0]

\* None in the place of an Orient, of a DiGraph or of an NXMcCode
Unset == [unset |-> TRUE]

Logged(by, level, about) == [by |-> by, level |-> level, about |-> about]

\* `possible = [x for x in self.instr.components if found(x)]`, as indexes;
\* by_name tells which of the two tests found is
possible_origins(cs, by_name, name) ==
  SelectSeq([i \in 1..Len(cs) |-> i],
            LAMBDA i : IF by_name THEN cs[i].name = name ELSE cs[i].category = "samples")

\* what the if ... elif ... elif of guess_origin logs
origin_logs(by, possible, name) ==
  IF possible = <<>>
  THEN <<Logged(by, "warn", IF name = None THEN "no samples" ELSE "no component named")>>
  ELSE IF name # None /\ Len(possible) > 1 THEN <<Logged(by, "error", "components named")>>
  ELSE IF Len(possible) > 1 THEN <<Logged(by, "warn", "more than one sample")>>
  ELSE <<>>

\* guess_origin that takes the last of the possible components
guess_origin_last(cs, name) ==
  LET possible == possible_origins(cs, name # None, name)
  IN  [origin_name |-> IF possible # <<>> THEN cs[possible[Len(possible)]].name ELSE name,
       origin |-> IF possible # <<>> THEN orientation(possible[Len(possible)]) ELSE Orient,
       logs |-> origin_logs("NXInstr", possible, name)]

\* NXInstr.guess_origin: the origin_name and origin it sets and what it logs
guess_origin(cs, name) ==
  LET possible == possible_origins(cs, name # None, name)
  IN  [origin_name |-> IF possible # <<>> THEN cs[possible[1]].name ELSE name,
       origin |-> IF possible # <<>> THEN orientation(possible[1]) ELSE Orient,
       logs |-> origin_logs("NXInstr", possible, name)]

\* a DiGraph: add_nodes_from and add_edges_from keep one node for a name and
\* one edge for a pair of names
DiGraph(nodes, edges) == [nodes |-> nodes, edges |-> edges]

\* build_graph with an edge from the last component back to the first
build_graph_closed(cs) ==
  DiGraph({cs[i].name : i \in 1..Len(cs)},
          {<<cs[i].name, cs[i + 1].name>> : i \in 1..(Len(cs) - 1)}
            \cup {<<cs[Len(cs)].name, cs[1].name>> : i \in 2..Len(cs)})

\* build_graph of NXInstr and of NXMcCode
build_graph(cs) ==
  DiGraph({cs[i].name : i \in 1..Len(cs)},
          {<<cs[i].name, cs[i + 1].name>> : i \in 1..(Len(cs) - 1)})

\* graph.reverse(copy=True)
reverse(graph) == DiGraph(graph.nodes, {<<e[2], e[1]>> : e \in graph.edges})

\* list(graph[name]): the other ends of the edges that start at name
adjacent(graph, name) == {e[2] : e \in {f \in graph.edges : f[1] = name}}

\* NXInstr.inputs
inputs(name) == adjacent(reverse_graph, name)

\* NXInstr.outputs
outputs(name) == adjacent(forward_graph, name)

\* NXMcCode.inputs
mccode_inputs(name) == adjacent(mccode.reversed_graph, name)

\* NXMcCode.outputs
mccode_outputs(name) == adjacent(mccode.graph, name)

\* the fields of an NXInstr over cs after __post_init__ has chosen the origin
\* and built the graphs, and what has been logged by then
constructed(cs, name, given) ==
  /\ components = cs
  /\ origin_name = (IF given = Unset THEN guess_origin(cs, name).origin_name ELSE name)
  /\ origin = (IF given = Unset THEN guess_origin(cs, name).origin ELSE given)
  /\ forward_graph = build_graph(cs)
  /\ reverse_graph = reverse(build_graph(cs))
  /\ mccode = Unset
  /\ log = (IF given = Unset THEN guess_origin(cs, name).logs ELSE <<>>)

\* no NXInstr has been made
NoNXInstr ==
  /\ components = <<>>
  /\ origin_name = None
  /\ origin = Unset
  /\ forward_graph = Unset
  /\ reverse_graph = Unset
  /\ mccode = Unset
  /\ log = <<>>

(***************************************************************************)
(* The Navigator as a state machine: structure is the tree (never          *)
(* assigned after construction), nav the record the Navigator in the       *)
(* caller's hand wraps, last the last call and what it returned.           *)
(***************************************************************************)
Call(op, self, path, arg, element, flag, res) ==
  [op |-> op, self |-> self, path |-> path, arg |-> arg, element |-> element, flag |-> flag, res |-> res]

NoRes == Res("none", NoNode, FALSE, "none", <<>>, <<>>)

NavInit ==
  /\ structure \in Trees
  /\ nav = Root
  /\ last = Call("idle", Root, <<>>, NoRes, NoNode, FALSE, NoRes)
  /\ nx = <<>>
  /\ index = 0
  /\ status = "none"
  /\ call = <<>>
  /\ absolute_depends_on = FALSE
  /\ instr = <<>>
  /\ resolved = <<>>
  /\ NoNXInstr

\* r = nav[path]; the caller goes on with r when it is a Navigator
GetItem(path) ==
  LET r == getitem(structure, nav, path)
  IN  /\ Idle
      /\ last' = Call("getitem", nav, path, NoRes, NoNode, FALSE, r)
      /\ nav' = IF r.type = "navigator" THEN r.node ELSE nav
      /\ UNCHANGED <<structure, synVars, resVars, conVars>>

\* r = nav[a][b]
Chained(a, b) ==
  LET first == getitem(structure, nav, a)
      r == IF first.type = "KeyError" THEN first ELSE subscript(structure, first, b)
  IN  /\ Idle
      /\ last' = Call("chained", nav, a, Res("key", NoNode, FALSE, "none", b, <<>>), NoNode, FALSE, r)
      /\ UNCHANGED <<structure, nav, synVars, resVars, conVars>>

\* r = nav.get(path, default)
Get(path, default) ==
  /\ Idle
  /\ last' = Call("get", nav, path, default, NoNode, FALSE, get(structure, nav, path, default))
  /\ UNCHANGED <<structure, nav, synVars, resVars, conVars>>

\* r = nav.exists(path)
Exists(path) ==
  /\ Idle
  /\ last' = Call("exists", nav, path, NoRes, NoNode, exists(structure, nav, path), NoRes)
  /\ UNCHANGED <<structure, nav, synVars, resVars, conVars>>

\* r = nav.find_all(name, include_attributes)
FindAll(name, include_attributes) ==
  /\ Idle
  /\ last' = Call("find_all", nav, name,
                  Res("list", NoNode, FALSE, "none", <<>>,
                      find_all(structure, nav, name, include_attributes)),
                  NoNode, include_attributes, NoRes)
  /\ UNCHANGED <<structure, nav, synVars, resVars, conVars>>

\* get_path popping from the 'children' list in the place of its own list of
\* names: the record numbered last leaves the tree
GetPath_pops_child(element) ==
  /\ Idle
  /\ last' = Call("get_path", nav, get_path(structure, nav, element), NoRes, element, FALSE, NoRes)
  /\ structure' = SubSeq(structure, 1, Len(structure) - 1)
  /\ UNCHANGED <<nav, synVars, resVars, conVars>>

\* p = nav.get_path(element)
GetPath(element) ==
  /\ Idle
  /\ last' = Call("get_path", nav, get_path(structure, nav, element), NoRes, element, FALSE, NoRes)
  /\ UNCHANGED <<structure, nav, synVars, resVars, conVars>>

\* r = nav[p] for the path p the preceding get_path returned, then nav.get_path of r
RoundTrip ==
  /\ last.op = "get_path"
  /\ last.path # None
  /\ LET r == getitem(structure, nav, last.path)
     IN  last' = Call("round_trip", nav, last.path,
                      Res("path", NoNode, FALSE, "none",
                          IF r.type = "KeyError" THEN None ELSE get_path(structure, nav, r.node), <<>>),
                      last.element, FALSE, r)
  /\ UNCHANGED <<structure, nav, synVars, resVars, conVars>>

\* the call has returned; the caller goes on with the Navigator in its hand
Return ==
  /\ ~Idle
  /\ last' = Call("idle", nav, <<>>, NoRes, NoNode, FALSE, NoRes)
  /\ UNCHANGED <<structure, nav, synVars, resVars, conVars>>

\* the caller takes the first Navigator again
Rewind ==
  /\ Idle
  /\ nav # Root
  /\ nav' = Root
  /\ last' = Call("idle", Root, <<>>, NoRes, NoNode, FALSE, NoRes)
  /\ UNCHANGED <<structure, synVars, resVars, conVars>>

NavNext ==
  \/ \E path \in Paths : GetItem(path)
  \/ \E a \in Segments \cup {<<>>}, b \in Segments \cup {<<>>, <<"c","o","n","f","i","g">>} : Chained(a, b)
  \/ \E path \in Paths, default \in Defaults(structure) : Get(path, default)
  \/ \E path \in Paths : Exists(path)
  \/ \E name \in Names, include_attributes \in BOOLEAN : FindAll(name, include_attributes)
  \/ \E element \in Elements(structure) : GetPath(element)
  \/ RoundTrip
  \/ Return
  \/ Rewind

NavSpec == NavInit /\ [][NavNext]_vars

(***************************************************************************)
(* Properties of the Navigator                                             *)
(***************************************************************************)
RECURSIVE InSubtree(_, _, _)
\* record n is the record top or lies below it (through children or attributes)
InSubtree(t, top, n) ==
  IF n = top THEN TRUE
  ELSE IF n < 1 \/ n > Len(t) THEN FALSE
  ELSE InSubtree(t, top, t[n].parent)

\* below top, no two children of one record bear the same name, and no two
\* attribute records of one record do
UniqueNames(t, top) ==
  \A i, j \in 1..Len(t) :
    ( /\ i # j
      /\ InSubtree(t, top, i)
      /\ t[i].parent = t[j].parent
      /\ (t[i].kind = "attr") = (t[j].kind = "attr") ) => t[i].name # t[j].name

\* C1 as stated: for every node N of the wrapped tree, get_path(N) is a path P,
\* lookup(P) resolves to the very record N, and get_path of that result is P again.
C1_RoundTripEveryTree ==
  /\ (last.op = "get_path" /\ InSubtree(structure, last.self, last.element)) => last.path # None
  /\ (last.op = "round_trip" /\ InSubtree(structure, last.self, last.element)) =>
       /\ last.res.type # "KeyError"
       /\ last.res.node = last.element
       /\ last.arg.component = last.path

\* C1 amended: the round trip holds in every wrapped tree in which the children
\* of each record bear pairwise distinct names and so do its attribute records
\* (names being non-empty, free of '/', and child names not starting with '@').
C1_RoundTripUniqueNames ==
  UniqueNames(structure, last.self) => C1_RoundTripEveryTree

\* a round trip through a nested attribute record, in a tree of distinct names
C1_Witness ==
  /\ last.op = "round_trip"
  /\ UniqueNames(structure, last.self)
  /\ KindOf(structure, last.element) = "attr"
  /\ structure[last.element].parent # last.self
  /\ last.res.type = "raw"
  /\ last.res.node = last.element
  /\ last.arg.component = last.path

\* C2 as stated: exists(P) is true iff lookup(P) does not fail, and get(P, D)
\* returns D iff exists(P) is false (otherwise what lookup(P) returns).
C2_GetDefaultIffNotExists ==
  /\ last.op = "exists" =>
       (last.flag <=> getitem(structure, last.self, last.path).type # "KeyError")
  /\ last.op = "get" =>
       /\ (last.res = last.arg) <=> ~exists(structure, last.self, last.path)
       /\ exists(structure, last.self, last.path) =>
            last.res = getitem(structure, last.self, last.path)

\* C2 amended: exists(P) is true iff lookup(P) does not fail; get(P, D) returns D
\* whenever exists(P) is false and returns what lookup(P) returns whenever
\* exists(P) is true (which is D itself when D is the record lookup(P) resolves to).
C2_GetExists ==
  /\ last.op = "exists" =>
       (last.flag <=> getitem(structure, last.self, last.path).type # "KeyError")
  /\ last.op = "get" =>
       /\ ~exists(structure, last.self, last.path) => last.res = last.arg
       /\ exists(structure, last.self, last.path) =>
            last.res = getitem(structure, last.self, last.path)

\* get returns the default for a two-segment path that is not found
C2_Witness ==
  /\ last.op = "get"
  /\ Len(split(strip(last.path))) = 2
  /\ getitem(structure, last.self, last.path).err = "not_found"
  /\ last.res = last.arg
  /\ last.arg = DefaultValue

\* the path 'a/b' of the segments a and b
Slashed(a, b) == a \o <<"/">> \o b

\* two lookups agree: both fail, or both resolve to the same record
SameOutcome(r1, r2) ==
  IF r1.type = "KeyError" \/ r2.type = "KeyError"
  THEN r1.type = "KeyError" /\ r2.type = "KeyError"
  ELSE r1.type = r2.type /\ r1.node = r2.node

\* C3 as stated: for all segments a and b, nav[a][b] and nav['a/b'] both fail or
\* both resolve to the same record.
C3_ChainedEqualsPath ==
  last.op = "chained" =>
    SameOutcome(last.res, getitem(structure, last.self, Slashed(last.path, last.arg.component)))

\* C3 amended: when nav[a] is a Navigator (a resolves to a group, or is empty),
\* nav[a][b] and nav['a/b'] both fail or both resolve to the same record; when
\* nav[a] fails, nav['a/b'] fails too.
C3_ChainedThroughGroup ==
  last.op = "chained" =>
    LET first == getitem(structure, last.self, last.path)
        direct == getitem(structure, last.self, Slashed(last.path, last.arg.component))
    IN  /\ first.type = "navigator" => SameOutcome(last.res, direct)
        /\ first.type = "KeyError" => direct.type = "KeyError"

\* nav[a][b] reaches a record below the group a
C3_Witness ==
  /\ last.op = "chained"
  /\ getitem(structure, last.self, last.path).type = "navigator"
  /\ getitem(structure, last.self, last.path).node # last.self
  /\ last.res.type = "raw"
  /\ structure[last.res.node].parent # last.self

(***************************************************************************)
(* Transformation chain synthesis.  Names and depends_on values are        *)
(* strings, written as sequences of tokens (a component name is one        *)
(* token), so that f'{name}_{typ}{i}', f'{target}/{t}' and                 *)
(* t.startswith('/') are computed.                                         *)
(***************************************************************************)
\* str(i)
str_int(i) == <<"0", "1", "2", "3", "4", "5", "6", "7", "8", "9">>[i + 1]

\* the depends_on of a node without predecessor
Dot == <<".">>

\* abs_ref: f'/entry/instrument/{ref}'
abs_ref(ref) == <<"/", "entry", "/", "instrument", "/", ref>>

\* Quantities.  expr: isinstance(c, (Expr, Value)); an Expr is a sum of
\* identifiers and a number: sym are its identifiers in the order they are
\* written, num is the number (the value, when there is no identifier).
Plain(n) == [expr |-> FALSE, sym |-> <<>>, num |-> n]

Const(n) == [expr |-> TRUE, sym |-> <<>>, num |-> n]

\* the bare reference of one identifier
Param(p) == [expr |-> TRUE, sym |-> <<p>>, num |-> 0]

\* the Expr  id + ... + id + n
Sum(ids, n) == [expr |-> TRUE, sym |-> ids, num |-> n]

\* c == Expr.parse('0'), norm.is_zero
is_zero(c) == c.sym = <<>> /\ c.num = 0

\* expr.is_constant
is_constant(e) == e.sym = <<>>

RECURSIVE plus_joined(_)
\* the identifiers of a sum as they are printed
plus_joined(ids) ==
  IF ids = <<>> THEN <<>>
  ELSE IF Len(ids) = 1 THEN <<ids[1]>>
  ELSE <<ids[1], "+">> \o plus_joined(Tail(ids))

\* str(expr): a bare identifier prints as its name
str(e) ==
  IF e.sym = <<>> THEN <<str_int(e.num)>>
  ELSE IF e.num = 0 THEN plus_joined(e.sym)
  ELSE plus_joined(e.sym) \o <<"+", str_int(e.num)>>

RECURSIVE substituted(_, _)
\* the identifiers with those that are declared replaced by their Exprs
substituted(ids, known) ==
  IF ids = <<>> THEN Const(0)
  ELSE LET rest == substituted(Tail(ids), known)
       IN  IF Head(ids) \in DOMAIN known
           THEN Sum(known[Head(ids)].sym \o rest.sym, known[Head(ids)].num + rest.num)
           ELSE Sum(<<Head(ids)>> \o rest.sym, rest.num)

\* expr.evaluate(known)
evaluate(e, known) ==
  LET sub == substituted(e.sym, known) IN Sum(sub.sym, e.num + sub.num)

\* expr.depends_on(name)
expr_depends_on(e, name) == \E i \in 1..Len(e.sym) : e.sym[i] = name

\* what the NXInstr holds for expr2nx: instr.parameters (their names),
\* declared, nxlog_root
Instrument(parameters, declared, nxlog_root) ==
  [parameters |-> parameters, declared |-> declared, nxlog_root |-> nxlog_root]

\* the address without the root
log_address_rootless(par) == <<"/", par>>

\* f'{self.nxlog_root}/{par}'
log_address(par) == instr.nxlog_root \o <<"/", par>>

\* what expr2nx gives back: a value (num), a linked NXlog (source), an
\* NXcollection (expression and links), a str (expression), or the error it
\* ends with; warned: log.warn was called
Resolution(kind, num, source, expression, links, warned) ==
  [kind |-> kind, num |-> num, source |-> source, expression |-> expression,
   links |-> links, warned |-> warned]

\* moreniius.utils.linked_nxlog(source): the Link Descriptor of a log, by its address
linked_nxlog(source) == Resolution("link", 0, source, <<>>, <<>>, FALSE)

\* moreniius.utils.link_specifier(name, source): the Link Descriptor kept
\* under a name
link_specifier(name, source) == [name |-> name, source |-> source]

\* {par: link_specifier(par, f'{self.nxlog_root}/{par}') for par in dependencies}
link_specifiers(dependencies) ==
  [i \in 1..Len(dependencies) |-> link_specifier(dependencies[i], log_address(dependencies[i]))]

\* NXcollection(expression=str(expr), **links): Python does not take one
\* keyword twice
NXcollection(expression, dependencies) ==
  IF \E i \in 1..Len(dependencies) : dependencies[i] = "expression"
  THEN Resolution("TypeError", 0, <<>>, expression, <<>>, TRUE)
  ELSE Resolution("NXcollection", 0, <<>>, expression, link_specifiers(dependencies), TRUE)

\* Vector.length() of a vector of constants
length(pos) ==
  LET sq == pos[1].num * pos[1].num + pos[2].num * pos[2].num + pos[3].num * pos[3].num
  IN  Plain(CHOOSE k \in 0..sq : k * k = sq)

\* pos / norm
divide(pos, norm) == [i \in 1..3 |-> Plain(pos[i].num \div norm.num)]

\* the branches of expr2nx after expr.evaluate(self.declared)
expr2nx_evaluated(q, evaluated, dependencies) ==
  IF is_constant(evaluated) THEN Resolution("value", evaluated.num, <<>>, <<>>, <<>>, FALSE)
  ELSE IF Len(dependencies) = 1 /\ str(q) = <<dependencies[1]>>
  THEN linked_nxlog(log_address(dependencies[1]))
  ELSE IF Len(dependencies) > 0 THEN NXcollection(str(q), dependencies)
  ELSE Resolution("str", 0, <<>>, str(q), <<>>, FALSE)

\* the parameters of the instrument the evaluated Expr depends on
dependencies_of(evaluated) ==
  SelectSeq(instr.parameters, LAMBDA par : expr_depends_on(evaluated, par))

\* NXInstr.expr2nx on a quantity: a non-Expr is returned as it is, a constant
\* Expr gives its value, then that of the Expr evaluated with the declared
\* variables; the bare reference of an instrument parameter gives a linked
\* NXlog, another Expr of parameters an NXcollection of links, any other its str
expr2nx(q) ==
  IF ~q.expr THEN Resolution("value", q.num, <<>>, <<>>, <<>>, FALSE)
  ELSE IF is_constant(q) THEN Resolution("value", q.num, <<>>, <<>>, <<>>, FALSE)
  ELSE expr2nx_evaluated(q, evaluate(q, instr.declared),
                         dependencies_of(evaluate(q, instr.declared)))

\* NXInstr.make_nx(NXfield, value, vector=, depends_on=, transformation_type=, units=)
make_nx(value, vector, depends_on, transformation_type, units) ==
  [value |-> expr2nx(value), vector |-> vector, depends_on |-> depends_on,
   transformation_type |-> transformation_type, units |-> units]

Named(name, field) == [name |-> name, field |-> field]

\* NXPart.make_translation
make_translation(norm, vec, dep) == make_nx(norm, vec, dep, "translation", <<"m">>)

\* Parts of the Pose Model: cls is the class of the Part, pos its translation,
\* angle its rotation angle about axis.
\* Part.is_translation: a Part that translates by a non-zero vector
is_translation(o) == o.cls # "RotationPart" /\ \E i \in 1..3 : ~is_zero(o.pos[i])

\* Part.is_rotation: a Part that rotates by a non-zero angle
is_rotation(o) == o.cls # "TranslationPart" /\ ~is_zero(o.angle)

\* the axis loop of NXPart.translations, from axis n on
RECURSIVE axis_translations(_, _, _, _)
axis_translations(pos, dep, name, n) ==
  IF n > 3 THEN <<>>
  ELSE LET next_name == name \o <<"_", <<"x", "y", "z">>[n]>>
           v == [i \in 1..3 |-> IF i = n THEN 1 ELSE 0]
       IN  IF ~is_zero(pos[n])
           THEN <<Named(next_name, make_translation(pos[n], v, dep))>>
                  \o axis_translations(pos, next_name, name, n + 1)
           ELSE axis_translations(pos, dep, name, n + 1)

\* translations that splits a vector by axis only when a component of it is
\* not constant
translations_of_constants(o, dep, name) ==
  LET pos == o.pos
  IN  IF \E i \in 1..3 : ~is_constant(pos[i])
      THEN axis_translations(pos, dep, name, 1)
      ELSE LET norm == length(pos)
               vec == IF is_zero(norm) THEN pos ELSE divide(pos, norm)
           IN  <<Named(name, make_translation(norm, [i \in 1..3 |-> vec[i].num], dep))>>

\* NXPart.translations
translations(o, dep, name) ==
  LET pos == o.pos
  IN  IF \E i \in 1..3 : pos[i].expr
      THEN axis_translations(pos, dep, name, 1)
      ELSE LET norm == length(pos)
               vec == IF is_zero(norm) THEN pos ELSE divide(pos, norm)
           IN  <<Named(name, make_translation(norm, [i \in 1..3 |-> vec[i].num], dep))>>

\* NXPart.rotation
rotation(o, dep) == make_nx(o.angle, o.axis, dep, "rotation", <<"degrees">>)

\* last_ref giving None for every list
last_ref_none(refs) == None

\* last_ref
last_ref(refs) == IF Len(refs) > 0 THEN refs[Len(refs)].name ELSE None

\* `rot = self.rotation(ops[-1][0])` and `ops.append((f'{name}_r', rot))`
with_rotation(ops, o, name) ==
  Append(ops, Named(name \o <<"_", "r">>, rotation(o, ops[Len(ops)].name)))

\* NXPart.transformations
part_transformations(o, name, dep) ==
  IF is_translation(o) /\ is_rotation(o)
  THEN with_rotation(translations(o, dep, name), o, name)
  ELSE IF is_translation(o) THEN translations(o, dep, name)
  ELSE IF is_rotation(o) THEN <<Named(name, rotation(o, dep))>>
  ELSE <<>>

\* `if len(parts) and len(parts[-1]): dep = parts[-1][0]`
last_name_or(parts, dep) == IF Len(parts) > 0 THEN parts[Len(parts)].name ELSE dep

\* the loop of NXParts._transformations without `dep = parts[-1][0]`
RECURSIVE stack_transformations_unthreaded(_, _, _, _, _)
stack_transformations_unthreaded(name, dep, typ, stack, i) ==
  IF i >= Len(stack) THEN <<>>
  ELSE part_transformations(stack[i + 1], name \o <<"_", typ, str_int(i)>>, dep)
         \o stack_transformations_unthreaded(name, dep, typ, stack, i + 1)

\* the loop of NXParts._transformations, from stack index i (0-based) on
RECURSIVE stack_transformations(_, _, _, _, _)
stack_transformations(name, dep, typ, stack, i) ==
  IF i >= Len(stack) THEN <<>>
  ELSE LET parts == part_transformations(stack[i + 1], name \o <<"_", typ, str_int(i)>>, dep)
       IN  parts \o stack_transformations(name, last_name_or(parts, dep), typ, stack, i + 1)

\* `dep or '.'`
or_dot(dep) == IF dep = None \/ dep = <<>> THEN Dot ELSE dep

\* NXParts.position_transformations without `dep = dep or '.'`
position_transformations_undefaulted(position, name, dep) ==
  stack_transformations(name, dep, "t", position, 0)

\* NXParts.position_transformations
position_transformations(position, name, dep) ==
  stack_transformations(name, or_dot(dep), "t", position, 0)

\* rotation_transformations that names its nodes with the letter of the
\* position stack
rotation_transformations_t(rot, name, dep) ==
  stack_transformations(name, or_dot(dep), "t", rot, 0)

\* NXParts.rotation_transformations
rotation_transformations(rot, name, dep) ==
  stack_transformations(name, or_dot(dep), "r", rot, 0)

\* NXParts.transformations
parts_transformations(position, rot, name, dep) ==
  LET parts == position_transformations(position, name, dep)
  IN  parts \o rotation_transformations(rot, name, last_name_or(parts, None))

\* {k: v for k, v in trans}: a key keeps the place of its first insertion and
\* the value of its last
to_dict(trans) ==
  LET n == Len(trans)
      is_first(i) == \A j \in 1..(i - 1) : trans[j].name # trans[i].name
      final(i) == CHOOSE j \in i..n : /\ trans[j].name = trans[i].name
                                      /\ \A k \in (j + 1)..n : trans[k].name # trans[i].name
      keys == SelectSeq([i \in 1..n |-> i], is_first)
  IN  [k \in 1..Len(keys) |-> trans[final(keys[k])]]

\* the components of the instrument, in declaration order
Components == <<"source", "mon0">>

ComponentNames == {Components[i] : i \in 1..Len(Components)}

\* ABSOLUTE: the reference of at_relative or rotate_relative is None
Absolute == "ABSOLUTE"

\* what make_transformations and NXMcCode.transformations give back
Returned(warned, trans) ==
  [raised |-> "none", message |-> "", warned |-> warned, trans |-> to_dict(trans)]

\* a return of no node in the place of the raise
Raised_returns(warned, message) ==
  [raised |-> "none", message |-> message, warned |-> warned, trans |-> <<>>]

Raised(warned, message) ==
  [raised |-> "RuntimeError", message |-> message, warned |-> warned, trans |-> <<>>]

NotStored == [stored |-> FALSE, depends_on |-> None, terminal |-> None]

\* a get that finds a group under every name
nx_get_found(nxi, name) ==
  IF name \in DOMAIN nxi THEN nxi[name] ELSE [NotStored EXCEPT !.stored = TRUE]

\* self.nx.get(name)
nx_get(nxi, name) == IF name \in DOMAIN nxi THEN nxi[name] ELSE NotStored

\* the absolute path of the reference as the target, whatever it depends on
head_target_abs_ref(nxi, at_rel) == abs_ref(at_rel)

\* the target of the chain head when position and rotation share the reference
head_target(nxi, at_rel) ==
  LET target == abs_ref(at_rel)
      t == nx_get(nxi, at_rel).depends_on
  IN  IF t # None
      THEN IF Head(t) = "/" THEN t
           ELSE IF t = Dot THEN None
           ELSE target \o <<"/">> \o t
      ELSE None

\* trans.extend(....rotation_transformations(name, last_ref(trans)))
extend_rotation(trans, rot, name) ==
  trans \o rotation_transformations(rot, name, last_ref(trans))

\* NXInstr.make_transformations.  inst.position and inst.rot are the stacks the
\* Pose Model gives for the component's own pose in the case at hand,
\* inst.ref_rot the rotation stack of the pose of the component named by
\* rotate_relative.
make_transformations(nxi, inst) ==
  LET at_rel == inst.at_rel
      rot_rel == inst.rot_rel
      any_abs == at_rel = Absolute \/ rot_rel = Absolute
      warned == any_abs \/ at_rel # rot_rel
  IN  IF at_rel = Absolute /\ rot_rel = Absolute
      THEN Returned(FALSE, parts_transformations(inst.position, inst.rot, <<inst.name>>, None))
      ELSE IF at_rel = Absolute
      THEN Returned(warned,
                    extend_rotation(
                      extend_rotation(position_transformations(inst.position, <<inst.name>>, None),
                                      inst.ref_rot, <<rot_rel>>),
                      inst.rot, <<inst.name>>))
      ELSE IF rot_rel = Absolute
      THEN Raised(warned, "AT RELATIVE comp ROTATE ABSOLUTE not yet implemented")
      ELSE IF at_rel # rot_rel
      THEN Raised(warned, "AT RELATIVE comp1 ROTATE RELATIVE comp2 not yet implemented")
      ELSE IF ~nx_get(nxi, at_rel).stored
      THEN Raised(warned, "transformations defined out of order")
      ELSE Returned(warned, parts_transformations(inst.position, inst.rot, <<inst.name>>,
                                                  head_target(nxi, at_rel)))

\* NXMcCode.transformations
mccode_transformations(inst) ==
  LET at_rel == inst.at_rel
      rot_rel == inst.rot_rel
  IN  IF at_rel = Absolute /\ rot_rel = Absolute
      THEN Returned(FALSE, parts_transformations(inst.position, inst.rot, <<inst.name>>, None))
      ELSE IF at_rel # Absolute /\ rot_rel # Absolute /\ at_rel = rot_rel
      THEN Returned(FALSE, parts_transformations(inst.position, inst.rot, <<inst.name>>,
                                                 abs_ref(at_rel)))
      ELSE Raised(FALSE, "All mixed reference-type orientations untested")

\* NXInstance(...).nx: the group stored for the component, of whose
\* transformations group the name of the last node is kept; its depends_on
\* names that node
NXInstance(name, transformations, absolute) ==
  [stored |-> TRUE,
   terminal |-> last_ref(transformations),
   depends_on |->
     IF transformations = <<>> THEN None
     ELSE LET rel == <<"transformations", "/">> \o transformations[Len(transformations)].name
          IN  IF absolute THEN abs_ref(name) \o <<"/">> \o rel ELSE rel]

\* nxlog_root as the callers give it
LogRoot == <<"/", "entry", "/", "instrument", "/", "parameters">>

\* Parts the Pose Model hands over
Zero3 == <<Plain(0), Plain(0), Plain(0)>>

ZAxis == <<0, 0, 1>>

Part(cls, pos, axis, angle) == [cls |-> cls, pos |-> pos, axis |-> axis, angle |-> angle]

\* a translation by nothing and a rotation by nothing: the identity
NoTranslation == Part("TranslationPart", Zero3, ZAxis, Plain(0))

NoRotation == Part("RotationPart", Zero3, ZAxis, Const(0))

\* a translation by plain numbers, (0, 0, 9)
ConstantTranslation == Part("TranslationPart", <<Plain(0), Plain(0), Plain(9)>>, ZAxis, Plain(0))

\* a translation with symbolic components, (ex, 0, 2)
SymbolicTranslation == Part("TranslationPart", <<Param("ex"), Const(0), Const(2)>>, ZAxis, Plain(0))

\* a rotation about z by the instrument parameter phi
Rotation == Part("RotationPart", Zero3, ZAxis, Param("phi"))

\* a Part that both translates and rotates
Screw == Part("Part", <<Plain(0), Plain(0), Plain(9)>>, ZAxis, Const(90))

\* a translation by constants held as Expr, (0, 3, 4)
ExprTranslation == Part("TranslationPart", <<Const(0), Const(3), Const(4)>>, ZAxis, Plain(0))

PositionParts ==
  {NoTranslation, ConstantTranslation, SymbolicTranslation, ExprTranslation, Rotation, Screw}

RotationParts == {NoRotation, Rotation}

Stacks(parts, n) == UNION {[1..k -> parts] : k \in 0..n}

References == ComponentNames \cup {Absolute}

Instance(name, at_rel, rot_rel, position, rot, ref_rot) ==
  [name |-> name, at_rel |-> at_rel, rot_rel |-> rot_rel,
   position |-> position, rot |-> rot, ref_rot |-> ref_rot]

\* position and rotation stack of one pose, within the bound
StackPairs ==
  UNION {Stacks(PositionParts, k) \X Stacks(RotationParts, MaxParts - k) : k \in 0..MaxParts}

\* the same with the rotation stack of the referenced component
StackTriples ==
  UNION {StackPairs \X {ref_rot} : ref_rot \in Stacks(RotationParts, MaxParts)}

\* the placements of a component: its references and the stacks that are read
\* for them
Placements ==
  {Instance("", Absolute, Absolute, s[1], s[2], <<>>) : s \in StackPairs}
    \cup {Instance("", r, r, s[1], s[2], <<>>) : r \in ComponentNames, s \in StackPairs}
    \cup {Instance("", Absolute, r, s[1][1], s[1][2], s[2]) :
            r \in ComponentNames,
            s \in {t \in StackTriples : Len(t[1][1]) + Len(t[1][2]) + Len(t[2]) <= MaxParts}}
    \cup {Instance("", r, Absolute, s[1], s[2], <<>>) : r \in ComponentNames, s \in StackPairs}
    \cup {Instance("", r[1], r[2], <<>>, <<>>, <<>>) :
            r \in {q \in ComponentNames \X ComponentNames : q[1] # q[2]}}

\* the component of that name and placement
Placed(name, p) == [p EXCEPT !.name = name]

Called(impl, inst, result) == [impl |-> impl, inst |-> inst, result |-> result]

\* the components of these names, none of them a sample
Declared(names) == [i \in 1..Len(names) |-> Component(<<names[i]>>, "optics")]

SynInit ==
  /\ structure = [i \in 1..MaxNodes |-> [parent |-> Root, kind |-> "group", name |-> <<"a">>]]
  /\ nav = Root
  /\ last = Call("idle", Root, <<>>, NoRes, NoNode, FALSE, NoRes)
  /\ nx = <<>>
  /\ index = 0
  /\ status = "constructing"
  /\ call = <<>>
  /\ absolute_depends_on \in BOOLEAN
  /\ instr = Instrument(<<"ex", "phi">>, <<>>, LogRoot)
  /\ resolved = <<>>
  /\ constructed(Declared(Components), None, Unset)

\* a turn of the loop that stores the component though the call has raised
store_instance_raised(inst, result) ==
  /\ call' = Called("NXInstr", inst, result)
  /\ nx' = [c \in DOMAIN nx \cup {inst.name} |->
              IF c = inst.name
              THEN NXInstance(inst.name, result.trans, absolute_depends_on)
              ELSE nx[c]]
  /\ index' = index + 1
  /\ status' = IF index + 1 = Len(Components) THEN "constructed" ELSE status

\* the rest of a turn of the loop of make_nx_instrument, once
\* make_transformations has returned or raised
store_instance(inst, result) ==
  /\ call' = Called("NXInstr", inst, result)
  /\ IF result.raised = "none"
     THEN /\ nx' = [c \in DOMAIN nx \cup {inst.name} |->
                      IF c = inst.name
                      THEN NXInstance(inst.name, result.trans, absolute_depends_on)
                      ELSE nx[c]]
          /\ index' = index + 1
          /\ status' = IF index + 1 = Len(Components) THEN "constructed" ELSE status
     ELSE /\ status' = "RuntimeError"
          /\ UNCHANGED <<nx, index>>

\* one turn of the loop of make_nx_instrument; after the last one the NXInstr
\* is constructed
MakeNXInstance(inst) ==
  /\ status = "constructing"
  /\ call = <<>>
  /\ index < Len(Components)
  /\ inst.name = Components[index + 1]
  /\ store_instance(inst, make_transformations(nx, inst))
  /\ UNCHANGED <<navVars, absolute_depends_on, resVars, conVars>>

\* the loop goes on to the next component
NextComponent ==
  /\ status = "constructing"
  /\ call # <<>>
  /\ call' = <<>>
  /\ UNCHANGED <<navVars, nx, index, status, absolute_depends_on, resVars, conVars>>

\* NXMcCode(nx_instr).transformations(name) for the component synthesized last
McCodeTransformations ==
  /\ status = "constructed"
  /\ call.impl = "NXInstr"
  /\ call' = Called("NXMcCode", call.inst, mccode_transformations(call.inst))
  /\ UNCHANGED <<navVars, nx, index, status, absolute_depends_on, resVars, conVars>>

SynNext ==
  \/ \E p \in Placements : MakeNXInstance(Placed(Components[index + 1], p))
  \/ NextComponent
  \/ McCodeTransformations

SynSpec == SynInit /\ [][SynNext]_vars

(***************************************************************************)
(* The same loop over a linear instrument: origin placed absolutely, then  *)
(* source and mon0 each placed relative to the component declared before   *)
(* it.                                                                     *)
(***************************************************************************)
\* the first components of the instrument of the test, in declaration order
Line == <<"origin", "source", "mon0">>

\* the reference of the i-th component of the line
line_reference(i) == IF i \in 2..Len(Line) THEN Line[i - 1] ELSE Absolute

\* position and rotation stacks of at most one Part each
ShortStackPairs == Stacks(PositionParts, 1) \X Stacks(RotationParts, 1)

\* the placements of the i-th component of the line
LinePlacements(i) ==
  {Instance("", line_reference(i), line_reference(i), s[1], s[2], <<>>) : s \in ShortStackPairs}

\* one turn of the loop of make_nx_instrument over the line
MakeLineInstance(inst) ==
  /\ status = "constructing"
  /\ call = <<>>
  /\ index < Len(Line)
  /\ inst.name = Line[index + 1]
  /\ LET result == make_transformations(nx, inst)
     IN  /\ call' = Called("NXInstr", inst, result)
         /\ nx' = [c \in DOMAIN nx \cup {inst.name} |->
                     IF c = inst.name
                     THEN NXInstance(inst.name, result.trans, absolute_depends_on)
                     ELSE nx[c]]
         /\ index' = index + 1
         /\ status' = IF index + 1 = Len(Line) THEN "constructed" ELSE status
  /\ UNCHANGED <<navVars, absolute_depends_on, resVars, conVars>>

\* the NXInstr of the line, made with origin_name = 'origin', before the loop
LineInit ==
  /\ structure = [i \in 1..MaxNodes |-> [parent |-> Root, kind |-> "group", name |-> <<"a">>]]
  /\ nav = Root
  /\ last = Call("idle", Root, <<>>, NoRes, NoNode, FALSE, NoRes)
  /\ nx = <<>>
  /\ index = 0
  /\ status = "constructing"
  /\ call = <<>>
  /\ absolute_depends_on \in BOOLEAN
  /\ instr = Instrument(<<"ex", "phi">>, <<>>, LogRoot)
  /\ resolved = <<>>
  /\ constructed(Declared(Line), <<"origin">>, Unset)

LineNext ==
  \/ \E p \in LinePlacements(index + 1) : MakeLineInstance(Placed(Line[index + 1], p))
  \/ NextComponent
  \/ McCodeTransformations

LineSpec == LineInit /\ [][LineNext]_vars

(***************************************************************************)
(* The construction itself, for every instrument of at most MaxComponents  *)
(* components: NXInstr(instr, origin_name=..., origin=...) and then        *)
(* NXMcCode(nx_instr, origin_name=...).                                    *)
(***************************************************************************)
ComponentKinds ==
  {Component(<<n>>, c) : n \in {"a", "b", "s"}, c \in {"samples", "optics"}}

ComponentLists == UNION {[1..n -> ComponentKinds] : n \in 0..MaxComponents}

\* the origin_name handed to the constructors: the default, the empty string,
\* names of components and a name of none
OriginNames == {None, <<>>, <<"a">>, <<"s">>, <<"z", "z">>}

\* an Orient handed to NXInstr as origin
GivenOrient == [component |-> MaxComponents + 1]

ConInit ==
  /\ structure = [i \in 1..MaxNodes |-> [parent |-> Root, kind |-> "group", name |-> <<"a">>]]
  /\ nav = Root
  /\ last = Call("idle", Root, <<>>, NoRes, NoNode, FALSE, NoRes)
  /\ nx = <<>>
  /\ index = 0
  /\ status = "none"
  /\ call = <<>>
  /\ absolute_depends_on = FALSE
  /\ instr = <<>>
  /\ resolved = <<>>
  /\ components \in ComponentLists
  /\ origin_name \in OriginNames
  /\ origin \in {Unset, GivenOrient}
  /\ forward_graph = Unset
  /\ reverse_graph = Unset
  /\ mccode = Unset
  /\ log = <<>>

\* the constructor called last and the origin_name and origin handed to it
Constructing(impl, name, given) == [impl |-> impl, origin_name |-> name, origin |-> given]

\* NXInstr.__post_init__ from the choice of the origin to the graphs; the loop
\* of make_nx_instrument that follows it is that of SynSpec
PostInit ==
  /\ forward_graph = Unset
  /\ IF origin = Unset
     THEN /\ origin_name' = guess_origin(components, origin_name).origin_name
          /\ origin' = guess_origin(components, origin_name).origin
          /\ log' = log \o guess_origin(components, origin_name).logs
     ELSE UNCHANGED <<origin_name, origin, log>>
  /\ forward_graph' = build_graph(components)
  /\ reverse_graph' = reverse(build_graph(components))
  /\ call' = Constructing("NXInstr", origin_name, origin)
  /\ UNCHANGED <<navVars, nx, index, status, absolute_depends_on, resVars, components, mccode>>

\* `for index, instance in enumerate(...): self.indexes[instance.name] = index`
indexes(cs) ==
  [n \in {cs[i].name : i \in 1..Len(cs)} |->
     (CHOOSE i \in 1..Len(cs) : cs[i].name = n /\ \A j \in (i + 1)..Len(cs) : cs[j].name # n) - 1]

\* NXMcCode.__post_init__ with the origin_name handed in: subtracted is the
\* orientation taken off the stored orientations, Unset when none is
McCodePostInit(name) ==
  /\ forward_graph # Unset
  /\ mccode = Unset
  /\ LET possible == possible_origins(components, name # None /\ name # <<>>, name)
     IN  /\ mccode' = [origin_name |-> IF possible # <<>> THEN components[possible[1]].name ELSE name,
                       indexes |-> indexes(components),
                       subtracted |-> IF possible # <<>> THEN orientation(possible[1]) ELSE Unset,
                       graph |-> build_graph(components),
                       reversed_graph |-> reverse(build_graph(components))]
         /\ log' = log \o origin_logs("NXMcCode", possible, name)
  /\ call' = Constructing("NXMcCode", name, Unset)
  /\ UNCHANGED <<navVars, nx, index, status, absolute_depends_on, resVars, components,
                 origin_name, origin, forward_graph, reverse_graph>>

ConNext ==
  \/ PostInit
  \/ \E name \in OriginNames : McCodePostInit(name)

ConSpec == ConInit /\ [][ConNext]_vars

(***************************************************************************)
(* NXInstr.expr2nx as a function of the quantity and of what the NXInstr   *)
(* holds for it: instr is set at construction, resolved is the call at     *)
(* hand and what it gave back.                                             *)
(***************************************************************************)
\* instr.parameters: the names of the instrument parameters, in their order
ParameterLists == {<<>>, <<"phi">>, <<"ex", "phi">>, <<"phi", "expression">>}

\* declared: nothing, a constant, an Expr of an instrument parameter, a
\* constant under the name of an instrument parameter
DeclaredMaps ==
  {<<>>, "x" :> Const(2), "x" :> Param("phi"), "x" :> Sum(<<"ex">>, 1), "phi" :> Const(1)}

\* nxlog_root: the default '' and a path
LogRoots == {<<>>, LogRoot}

Instruments ==
  {Instrument(ps, d, r) : ps \in ParameterLists, d \in DeclaredMaps, r \in LogRoots}

\* the quantities handed to expr2nx: numbers, constant Exprs, bare
\* identifiers, sums
Quantities ==
  {Plain(0), Plain(9), Const(2)}
    \cup {Param(id) : id \in {"phi", "ex", "x", "expression", "foo"}}
    \cup {Sum(<<"phi">>, 1), Sum(<<"phi", "ex">>, 0), Sum(<<"x", "phi">>, 0),
          Sum(<<"ex", "x">>, 0), Sum(<<"expression", "phi">>, 0)}

ResInit ==
  /\ structure = [i \in 1..MaxNodes |-> [parent |-> Root, kind |-> "group", name |-> <<"a">>]]
  /\ nav = Root
  /\ last = Call("idle", Root, <<>>, NoRes, NoNode, FALSE, NoRes)
  /\ nx = <<>>
  /\ index = 0
  /\ status = "none"
  /\ call = <<>>
  /\ absolute_depends_on = FALSE
  /\ instr \in Instruments
  /\ resolved = <<>>
  /\ constructed(<<>>, None, Unset)

\* r = nx_instr.expr2nx(q)
Expr2NX(q) ==
  /\ resolved = <<>>
  /\ resolved' = [quantity |-> q, result |-> expr2nx(q)]
  /\ UNCHANGED <<navVars, synVars, instr, conVars>>

\* the call has returned or raised; the caller goes on
Expr2NXReturn ==
  /\ resolved # <<>>
  /\ resolved' = <<>>
  /\ UNCHANGED <<navVars, synVars, instr, conVars>>

ResNext ==
  \/ \E q \in Quantities : Expr2NX(q)
  \/ Expr2NXReturn

ResSpec == ResInit /\ [][ResNext]_vars

(***************************************************************************)
(* Properties of the synthesized chains                                    *)
(***************************************************************************)
\* the call at hand gave back a chain
Emitted == call # <<>> /\ call.result.raised = "none"

chain == call.result.trans

BothAbsolute == call.inst.at_rel = Absolute /\ call.inst.rot_rel = Absolute

SameReference == call.inst.at_rel # Absolute /\ call.inst.at_rel = call.inst.rot_rel

\* the absolute path of the last transformation node of a stored component
Terminal(ref) ==
  abs_ref(ref) \o <<"/", "transformations", "/">>
    \o nx[ref].terminal

HasChain(ref) == ref \in DOMAIN nx /\ nx[ref].terminal # None

\* the nodes of the chain no node of the chain precedes
Heads == {i \in 1..Len(chain) : \A j \in 1..Len(chain) : chain[i].field.depends_on # chain[j].name}

\* nodes of the position stack and of the rotation stack, told by the letter
\* of their names
FromStack(i, typ) == chain[i].name[3] = typ

\* the dependency the chain of the call comes in with, as the specification names it:
\* none for an absolute pose, the terminal node of the referenced component for
\* NXInstr (none when that component has no node), the referenced component
\* for NXMcCode
Incoming ==
  IF BothAbsolute THEN Dot
  ELSE IF call.impl = "NXMcCode" THEN abs_ref(call.inst.at_rel)
  ELSE IF HasChain(call.inst.at_rel) THEN Terminal(call.inst.at_rel)
  ELSE Dot

\* C4: when position and rotation of a component share one relative
\* reference, the emitted chain has exactly one node without predecessor in
\* the chain, and that node depends on the terminal transformation node of
\* the referenced component, or, when that component has no node, on the
\* component itself.  (An empty chain, and '.' in the place of the path of a
\* referenced component without nodes, are not held against the code here.)
C4_HeadOnTerminalOfReference ==
  (Emitted /\ call.impl = "NXInstr" /\ SameReference /\ chain # <<>>) =>
     /\ Cardinality(Heads) = 1
     /\ \A i \in Heads :
          IF HasChain(call.inst.at_rel)
          THEN chain[i].field.depends_on = Terminal(call.inst.at_rel)
          ELSE chain[i].field.depends_on \in {Dot, abs_ref(call.inst.at_rel)}

\* C5: with a shared relative reference the position nodes come before the
\* rotation nodes, each position node depends on the position node emitted
\* before it, and the first rotation node depends on the last position node
\* or, when there is no position node, on the dependency the chain came in
\* with.
C5_RotationAfterPosition ==
  (Emitted /\ SameReference) =>
     /\ \A i, j \in 1..Len(chain) : (FromStack(i, "r") /\ FromStack(j, "t")) => j < i
     /\ \A i \in 1..Len(chain) :
          FromStack(i, "t") =>
             chain[i].field.depends_on = IF i = 1 THEN Incoming ELSE chain[i - 1].name
     /\ \A i \in 1..Len(chain) :
          (FromStack(i, "r") /\ (i = 1 \/ FromStack(i - 1, "t"))) =>
             chain[i].field.depends_on = IF i = 1 THEN Incoming ELSE chain[i - 1].name

\* the node has magnitude zero
ZeroNode(n) == n.field.value.kind = "value" /\ n.field.value.num = 0

\* C7: no Part of zero magnitude gives a node, and the chain stays connected
\* across the Parts left out: every node depends on the nearest node emitted
\* before it, the first of all on the dependency the chain came in with, in
\* the position and in the rotation stack alike.
C7_ZeroPartsLeftOut ==
  (Emitted /\ (SameReference \/ BothAbsolute)) =>
     /\ \A i \in 1..Len(chain) : ~ZeroNode(chain[i])
     /\ \A i \in 1..Len(chain) :
          chain[i].field.depends_on = IF i = 1 THEN Incoming ELSE chain[i - 1].name

\* the node depends on the terminal transformation node of another component
OnOtherTerminal(n) ==
  \E c \in DOMAIN nx \ {call.inst.name} : HasChain(c) /\ n.field.depends_on = Terminal(c)

\* the emitted nodes are one chain: one head, which has no predecessor or
\* depends on the terminal node of another component, and every other node
\* depends on a node emitted before it
OneChain ==
  /\ Cardinality(Heads) = 1
  /\ \A i \in Heads : chain[i].field.depends_on = Dot \/ OnOtherTerminal(chain[i])
  /\ \A i \in (1..Len(chain)) \ Heads :
       \E j \in 1..(i - 1) : chain[i].field.depends_on = chain[j].name

\* C6 as it stands: for every synthesized component the emitted nodes form a
\* singly linked chain without cycles, of which exactly one node has no
\* predecessor or depends on the terminal node of another component.
C6_EveryComponentOneChain ==
  (Emitted /\ call.impl = "NXInstr") => OneChain

\* absolute position, rotation relative to the component itself
RotatedOnItself == call.inst.at_rel = Absolute /\ call.inst.rot_rel = call.inst.name

\* C6 amended: for every synthesized component with at least one emitted
\* node, which is not an absolutely positioned component rotated relative to
\* itself, the emitted nodes form a singly linked chain without cycles, of
\* which exactly one node has no predecessor or depends on the terminal node
\* of another component, and every other node depends on a node emitted
\* before it.
C6_NonEmptyChainOneChain ==
  (Emitted /\ call.impl = "NXInstr" /\ chain # <<>> /\ ~RotatedOnItself) => OneChain

\* a chain of three nodes the head of which depends on the terminal node of
\* the referenced component
C6_Witness ==
  /\ Emitted /\ call.impl = "NXInstr" /\ SameReference
  /\ Len(chain) = 3
  /\ OnOtherTerminal(chain[1])
  /\ OneChain

\* the Parts of the stacks of the call, position stack first, each with the
\* letter and index its nodes are named by
AllParts ==
  LET position == call.inst.position
      rot == call.inst.rot
  IN  [i \in 1..(Len(position) + Len(rot)) |->
         IF i <= Len(position)
         THEN [typ |-> "t", idx |-> str_int(i - 1), o |-> position[i]]
         ELSE [typ |-> "r", idx |-> str_int(i - Len(position) - 1), o |-> rot[i - Len(position)]]]

NonZero(p) == is_translation(p.o) \/ is_rotation(p.o)

NonZeroParts == SelectSeq(AllParts, NonZero)

\* the node is named for the Part
NamedFor(n, p) == n.name[3] = p.typ /\ n.name[4] = p.idx

\* the first node depends on '.', every later one on the node before it
LinkedFromDot ==
  \A i \in 1..Len(chain) :
     chain[i].field.depends_on = IF i = 1 THEN Dot ELSE chain[i - 1].name

\* C8 as it stands: with position and rotation both absolute, one node is
\* emitted per non-zero Part, in stack order; the first node depends on '.',
\* every later node on the node emitted immediately before it.
C8_OneNodePerPart ==
  (Emitted /\ BothAbsolute) =>
     /\ Len(chain) = Len(NonZeroParts)
     /\ \A k \in 1..Len(chain) : NamedFor(chain[k], NonZeroParts[k])
     /\ LinkedFromDot

\* the number of nodes of a non-zero Part: one for a rotation or for a
\* translation by plain numbers, one per non-zero axis for a translation with
\* a symbolic component, and one more for the rotation of a Part that also
\* translates
NodeCount(o) ==
  IF is_translation(o)
  THEN (IF \E i \in 1..3 : o.pos[i].expr
        THEN Cardinality({i \in 1..3 : ~is_zero(o.pos[i])})
        ELSE 1) + (IF is_rotation(o) THEN 1 ELSE 0)
  ELSE 1

\* the nodes named for the k-th non-zero Part
NodesFor(k) == {i \in 1..Len(chain) : NamedFor(chain[i], NonZeroParts[k])}

\* C8 amended: with position and rotation both absolute, the nodes of the
\* non-zero Parts are emitted in stack order, one node per Part except that a
\* translation with a symbolic component gives one node per non-zero axis and
\* a Part that translates and rotates gives its translation nodes and then
\* one rotation node; the first node depends on '.', every later node on the
\* node emitted immediately before it.
C8_NodesOfPartsInStackOrder ==
  (Emitted /\ BothAbsolute) =>
     /\ \A i \in 1..Len(chain) : \E k \in 1..Len(NonZeroParts) : i \in NodesFor(k)
     /\ \A k \in 1..Len(NonZeroParts) : Cardinality(NodesFor(k)) = NodeCount(NonZeroParts[k].o)
     /\ \A k, l \in 1..Len(NonZeroParts) :
          k < l => \A i \in NodesFor(k), j \in NodesFor(l) : i < j
     /\ LinkedFromDot

\* an absolute pose of a two-axis symbolic translation and a rotation
C8_Witness ==
  /\ Emitted /\ BothAbsolute /\ call.impl = "NXInstr"
  /\ call.inst.position = <<SymbolicTranslation>>
  /\ call.inst.rot = <<Rotation>>
  /\ Len(chain) = 3
  /\ chain[3].field.depends_on = <<"mon0", "_", "t", "0", "_", "z">>

\* absolute position, relative rotation
AbsoluteRelative == call # <<>> /\ call.inst.at_rel = Absolute /\ call.inst.rot_rel # Absolute

\* the call raised and gave no chain; in NXInstr the construction is over
\* and the component is not stored
Fatal ==
  /\ call.result.raised = "RuntimeError"
  /\ chain = <<>>
  /\ call.impl = "NXInstr" => (status = "RuntimeError" /\ call.inst.name \notin DOMAIN nx)

ThreeStacks ==
  LET np == Cardinality({i \in 1..Len(chain) : chain[i].name[1] = call.inst.name /\ chain[i].name[3] = "t"})
      nr == Cardinality({i \in 1..Len(call.inst.ref_rot) : is_rotation(call.inst.ref_rot[i])})
      no == Cardinality({i \in 1..Len(call.inst.rot) : is_rotation(call.inst.rot[i])})
  IN  /\ Len(chain) = np + nr + no
      /\ \A i \in 1..Len(chain) :
           /\ i <= np => chain[i].name[1] = call.inst.name /\ chain[i].name[3] = "t"
           /\ (np < i /\ i <= np + nr) => chain[i].name[1] = call.inst.rot_rel /\ chain[i].name[3] = "r"
           /\ np + nr < i => chain[i].name[1] = call.inst.name /\ chain[i].name[3] = "r"

DifferentTargets ==
  /\ call # <<>>
  /\ call.inst.at_rel # Absolute /\ call.inst.rot_rel # Absolute
  /\ call.inst.at_rel # call.inst.rot_rel

\* C10: position and rotation relative to two different components always
\* raise a fatal error and give no chain, so that no node of the component
\* is emitted.
C10_DifferentTargetsFatal == DifferentTargets => Fatal

\* the second component, placed relative to the first and rotated relative
\* to itself, has raised
C10_Witness ==
  /\ DifferentTargets /\ Fatal
  /\ call.impl = "NXInstr"
  /\ call.inst.at_rel = "source" /\ call.inst.rot_rel = "mon0"
  /\ "source" \in DOMAIN nx

\* the components stored when the call at hand began: a component is stored
\* by its own call only, and after make_transformations has returned
StoredBefore == DOMAIN nx \ {call.inst.name}

\* the components the call at hand refers to
Referenced == {call.inst.at_rel, call.inst.rot_rel} \ {Absolute}

OutOfOrder ==
  /\ call.result.raised = "RuntimeError"
  /\ call.result.message = "transformations defined out of order"

\* the stored components are the first ones of the declaration
InDeclarationOrder == DOMAIN nx = {Components[i] : i \in 1..index}

\* C11 as it stands: components are stored in declaration order, each after
\* its synthesis; a call of make_transformations that refers, for position or
\* for rotation, to a component not stored yet raises the out-of-order error
\* and gives no chain, and a call whose references are all stored does not
\* raise that error.
C11_UnstoredReferenceOutOfOrder ==
  /\ InDeclarationOrder
  /\ (call # <<>> /\ call.impl = "NXInstr") =>
        IF Referenced \subseteq StoredBefore THEN ~OutOfOrder
        ELSE OutOfOrder /\ Fatal

\* C11 amended: components are stored in declaration order, each after its
\* synthesis; make_transformations raises the out-of-order error, and gives
\* no chain, exactly when position and rotation refer to one and the same
\* component and that component is not stored yet (a later one or the
\* component itself).  With two different references, or one of them
\* absolute, the store is not looked at.
C11_SameReferenceOutOfOrder ==
  /\ InDeclarationOrder
  /\ (call # <<>> /\ call.impl = "NXInstr") =>
        /\ OutOfOrder <=> (SameReference /\ call.inst.at_rel \notin StoredBefore)
        /\ OutOfOrder => Fatal

\* the second component, placed and rotated relative to itself after the
\* first one was stored, has raised the out-of-order error
C11_Witness ==
  /\ call # <<>> /\ call.impl = "NXInstr"
  /\ call.inst.name = "mon0" /\ call.inst.at_rel = "mon0" /\ call.inst.rot_rel = "mon0"
  /\ OutOfOrder /\ Fatal
  /\ DOMAIN nx = {"source"}

\* the path has an '@' segment that is not its last segment
Malformed(path) ==
  LET parts == split(strip(path))
  IN  \E i \in 1..(Len(parts) - 1) : startswith_at(parts[i])

\* the call at hand took a path
PathTaking == last.op \in {"getitem", "get", "exists"}

\* the call at hand ended in a KeyError the caller sees
Surfaced == last.res.type = "KeyError"

\* C12: a path with an '@' segment before its last segment makes lookup, get
\* and exists fail towards the caller; get gives its default and exists gives
\* False for a path that is not found only.
C12_MalformedAlwaysSurfaced ==
  (PathTaking /\ Malformed(last.path)) => Surfaced

\* the first '@' segment of a path
first_at(parts) == CHOOSE i \in 1..Len(parts) : startswith_at(parts[i]) /\ \A j \in 1..(i - 1) : ~startswith_at(parts[j])

\* the segments before the first '@' segment lead from the wrapped record to a record
ReachesAt(t, self, path) ==
  LET parts == split(strip(path))
  IN  _navigate(t, self, SubSeq(parts, 1, first_at(parts) - 1)).type = "found"

\* C13 as it stands: lookup of a path with a segment after an '@' segment
\* fails with the malformed-path error, not with the not-found error.
C13_MalformedError ==
  (last.op = "getitem" /\ Malformed(last.path)) =>
     (last.res.type = "KeyError" /\ last.res.err = "malformed")

\* C13 amended: lookup of a path with a segment after an '@' segment always
\* fails; it fails with the malformed-path error, which is told from the
\* not-found error, when the segments before the first '@' segment resolve,
\* whether or not the record they lead to has the attribute, and with the
\* not-found error when one of them does not resolve.
C13_MalformedErrorWhenReached ==
  (last.op = "getitem" /\ Malformed(last.path)) =>
     /\ last.res.type = "KeyError"
     /\ last.res.err = (IF ReachesAt(structure, last.self, last.path) THEN "malformed" ELSE "not_found")

\* lookup of 'a/@a/a' where the group a has no attribute fails as malformed
C13_Witness ==
  /\ last.op = "getitem" /\ last.self = Root
  /\ last.path = <<"a", "/", "@", "a", "/", "a">>
  /\ last.res.err = "malformed"
  /\ \E n \in 1..Len(structure) :
        /\ structure[n].parent = Root /\ structure[n].kind = "group" /\ structure[n].name = <<"a">>
        /\ \A m \in 1..(n - 1) : structure[m].parent = Root => structure[m].name # <<"a">>
        /\ attributes(structure, n) = <<>>

\* the record a path resolves to from the wrapped record: that record itself
\* for a path without segments
Resolved(t, self, path) ==
  IF strip(path) = <<>> THEN self ELSE _navigate(t, self, split(strip(path))).node

\* lookup has returned
Looked == last.op = "getitem" /\ last.res.type # "KeyError"

\* what lookup returned is the resolved record: wrapped in a Navigator when
\* it has 'children', else (a dataset, a link, an attribute record) the
\* record of the tree itself
WrappedIffGroup ==
  /\ last.res.type \in {"navigator", "raw"}
  /\ last.res.node = Resolved(structure, last.self, last.path)
  /\ last.res.type = "navigator" <=> KindOf(structure, last.res.node) \in {"root", "group"}
  /\ last.res.type = "raw" <=> KindOf(structure, last.res.node) \in {"dataset", "link", "attr"}

\* C14 as it stands: lookup returns a new Navigator wrapping the resolved
\* record iff that record has 'children', and the raw record itself when it is
\* a dataset, a link or an attribute record.
C14_NewNavigatorIffGroup ==
  Looked => (WrappedIffGroup /\ ~last.res.same)

\* C14 amended: the same, but the Navigator returned for a path without
\* segments (empty, or slashes only) is the Navigator asked, not a new one;
\* for a path with a segment it is a new one.
C14_NavigatorIffGroup ==
  Looked => (WrappedIffGroup /\ (last.res.same <=> strip(last.path) = <<>>))

\* lookup of a path of two segments has returned a new Navigator on a nested group
C14_Witness ==
  /\ Looked /\ last.res.type = "navigator" /\ ~last.res.same
  /\ Len(split(strip(last.path))) = 2
  /\ last.res.node # last.self
  /\ structure[last.res.node].kind = "group"
  /\ structure[last.res.node].parent # last.self

\* the segments of the path of the call at hand
parts_of_last == split(strip(last.path))

\* the path of the call ends in an '@' segment, its only one, and the
\* segments before it lead to a record
AttributeLookup ==
  /\ last.op = "getitem"
  /\ strip(last.path) # <<>>
  /\ startswith_at(parts_of_last[Len(parts_of_last)])
  /\ first_at(parts_of_last) = Len(parts_of_last)
  /\ ReachesAt(structure, last.self, last.path)

\* the record the segments before the '@' segment lead to
reached == _navigate(structure, last.self, SubSeq(parts_of_last, 1, Len(parts_of_last) - 1)).node

\* the attribute records of a record that bear the name
named_attributes(n, name) ==
  SelectSeq(attributes(structure, n), LAMBDA a : structure[a].name = name)

\* C15: a final '@name' segment resolves to the attribute record named name
\* of the record the segments before it lead to (the first of that name), and
\* lookup returns that very record; when that record has no attribute of the
\* name, lookup fails with the not-found error.
C15_FinalAttributeSegment ==
  AttributeLookup =>
    LET name == Tail(parts_of_last[Len(parts_of_last)])
        hits == named_attributes(reached, name)
    IN  IF hits # <<>>
        THEN last.res.type = "raw" /\ last.res.node = Head(hits)
        ELSE last.res.type = "KeyError" /\ last.res.err = "not_found"

\* lookup of '@b' on a record whose attributes are all named a has failed
\* with the not-found error
C15_WitnessNotFound ==
  /\ AttributeLookup
  /\ last.path = <<"@", "b">>
  /\ attributes(structure, last.self) # <<>>
  /\ last.res.err = "not_found"

\* lookup of 'a/@a' has returned the attribute record of the dataset a
C15_Witness ==
  /\ AttributeLookup
  /\ Len(parts_of_last) = 2
  /\ KindOf(structure, reached) = "dataset"
  /\ last.res.type = "raw"
  /\ KindOf(structure, last.res.node) = "attr"
  /\ structure[last.res.node].parent = reached

\* record a is record n or a record above it
IsAbove(a, n) == InSubtree(structure, a, n)

\* of two records of one parent, a is met first: the attribute records of a
\* record are gone through before its children, each list in document order
SiblingBefore(a, b) ==
  \/ structure[a].kind = "attr" /\ structure[b].kind # "attr"
  \/ (structure[a].kind = "attr") = (structure[b].kind = "attr") /\ a < b

\* x comes before y in the pre-order traversal
PreOrderBefore(x, y) ==
  /\ x # y
  /\ \/ IsAbove(x, y)
     \/ /\ ~IsAbove(y, x)
        /\ \E a, b \in 1..Len(structure) :
             /\ a # b /\ structure[a].parent = structure[b].parent
             /\ IsAbove(a, x) /\ IsAbove(b, y)
             /\ SiblingBefore(a, b)

\* the records find_all is to give: groups, datasets and links of the name
\* at or below the wrapped record, and attribute records of the name when
\* they are asked for
Matching(self, name, include_attributes) ==
  {n \in 1..Len(structure) :
     /\ InSubtree(structure, self, n)
     /\ structure[n].name = name
     /\ structure[n].kind = "attr" => include_attributes}

\* C16: find_all(name, include_attributes) gives, each once and in pre-order
\* from the wrapped record, the groups, datasets and links of that name, and
\* with include_attributes the attribute records of that name of the records
\* gone through, and without it no attribute record; so one record of the
\* name gives a list of one, and none gives the empty list.
C16_FindAllPreOrder ==
  last.op = "find_all" =>
    LET found == last.arg.at
        wanted == Matching(last.self, last.path, last.flag)
    IN  /\ {found[i] : i \in 1..Len(found)} = wanted
        /\ Len(found) = Cardinality(wanted)
        /\ \A i, j \in 1..Len(found) : i < j => PreOrderBefore(found[i], found[j])

\* find_all with attributes has given a group, then its attribute record,
\* then its child, which is numbered before the attribute record
C16_Witness ==
  /\ last.op = "find_all" /\ last.flag
  /\ Len(last.arg.at) = 3
  /\ structure[last.arg.at[1]].kind = "group"
  /\ structure[last.arg.at[2]].kind = "attr"
  /\ structure[last.arg.at[3]].parent = last.arg.at[1]
  /\ structure[last.arg.at[3]].kind # "attr"
  /\ last.arg.at[3] < last.arg.at[2]

\* the segment that names a record under its parent
segment(n) == IF structure[n].kind = "attr" THEN <<"@">> \o structure[n].name ELSE structure[n].name

RECURSIVE SegmentsTo(_, _)
\* the segments from the record top down to the record n at or below it
SegmentsTo(top, n) ==
  IF n = top THEN <<>> ELSE Append(SegmentsTo(top, structure[n].parent), segment(n))

\* two different records are equal in value: same kind, same name, nothing below them
EqualInValue(x, y) ==
  /\ x # y
  /\ structure[x].kind = structure[y].kind /\ structure[x].name = structure[y].name
  /\ \A m \in 1..Len(structure) : structure[m].parent \notin {x, y}

\* C17: get_path goes by identity: for a record at or below the wrapped
\* record it gives the path of the names from the wrapped record down to that
\* very record, whatever records of equal value the tree has elsewhere; for a
\* record that is not at or below the wrapped record, be it equal in value to
\* one that is, it gives None.
C17_GetPathByIdentity ==
  last.op = "get_path" =>
    IF InSubtree(structure, last.self, last.element)
    THEN last.path = <<"/">> \o join(SegmentsTo(last.self, last.element))
    ELSE last.path = None

\* get_path of an attribute record of a group has given the path through
\* the group, though the wrapped record has an attribute record of equal
\* value, which the traversal meets first
C17_Witness ==
  /\ last.op = "get_path" /\ last.self = Root
  /\ last.element \in 1..Len(structure)
  /\ structure[last.element].kind = "attr"
  /\ structure[last.element].parent # Root
  /\ \E twin \in 1..Len(structure) :
        EqualInValue(twin, last.element) /\ structure[twin].parent = Root
  /\ last.path = <<"/", "a", "/", "@", "a">>

\* get_path of a dict that is no record of the tree has given None
C17_WitnessForeign ==
  /\ last.op = "get_path" /\ last.element = Foreign /\ last.path = None

\* C18: no operation of the Navigator, on the first Navigator or on one a
\* lookup returned, whether it returns or raises, changes the tree: every
\* record, the order of the children, every attribute record and name stay
\* as they were at construction.
C18_TreeNeverMutated == [][structure' = structure]_vars

\* a lookup has failed on a Navigator that an earlier lookup returned
C18_Witness ==
  /\ nav # Root
  /\ last.self = nav
  /\ last.op = "getitem"
  /\ last.res.type = "KeyError"

\* the names of a sequence
Range(seq) == {seq[i] : i \in 1..Len(seq)}

\* the instrument parameters a quantity depends on once the declared
\* variables are put in the place of their names
Dependencies(q) ==
  {p \in Range(instr.parameters) :
     \/ p \in Range(q.sym) \ DOMAIN instr.declared
     \/ \E d \in Range(q.sym) \cap DOMAIN instr.declared : p \in Range(instr.declared[d].sym)}

\* the quantity is an Expr that is the bare reference of the one instrument
\* parameter it depends on
BareReference(q) == q.expr /\ \E p \in Dependencies(q) : Dependencies(q) = {p} /\ q = Param(p)

\* C19: resolving an Expr that, with the declared variables put in, depends
\* on exactly one instrument parameter and is written as the bare name of
\* that parameter gives one link, addressed at <nxlog_root>/<name>, and no
\* warning.
C19_BareParameterLinked ==
  (resolved # <<>> /\ BareReference(resolved.quantity)) =>
     /\ resolved.result.kind = "link"
     /\ resolved.result.source = instr.nxlog_root \o <<"/", resolved.quantity.sym[1]>>
     /\ ~resolved.result.warned

\* phi, with the log root /entry/instrument/parameters, has given the link
\* to /entry/instrument/parameters/phi
C19_Witness ==
  /\ resolved # <<>>
  /\ resolved.quantity = Param("phi")
  /\ BareReference(resolved.quantity)
  /\ instr.declared # <<>>
  /\ resolved.result.kind = "link"
  /\ resolved.result.source = <<"/", "entry", "/", "instrument", "/", "parameters", "/", "phi">>

\* a collection with one link for each name of the set and for no other,
\* each at <nxlog_root>/<name>
LinksExactly(links, names) ==
  /\ {links[i].name : i \in 1..Len(links)} = names
  /\ Len(links) = Cardinality(names)
  /\ \A i \in 1..Len(links) : links[i].source = instr.nxlog_root \o <<"/", links[i].name>>

\* C20: resolving an Expr that depends on one or more instrument parameters
\* and is not the bare reference of one gives a collection that has one link
\* for each of these parameters and for nothing else, each addressed at
\* <nxlog_root>/<name>, and the text of the Expr as it was handed in; a
\* warning is logged and nothing is raised.
C20_LinkBundle ==
  ( /\ resolved # <<>>
    /\ resolved.quantity.expr
    /\ Dependencies(resolved.quantity) # {}
    /\ ~BareReference(resolved.quantity) ) =>
     /\ resolved.result.kind = "NXcollection"
     /\ LinksExactly(resolved.result.links, Dependencies(resolved.quantity))
     /\ resolved.result.expression = str(resolved.quantity)
     /\ resolved.result.warned

\* the same for Exprs that depend on no instrument parameter named
\* 'expression', the keyword under which the text is handed to NXcollection
C20_LinkBundleUnlessNamedExpression ==
  (resolved # <<>> /\ "expression" \notin Dependencies(resolved.quantity)) => C20_LinkBundle

\* expr2nx has returned, and what it returned
Returns(kinds) == resolved.result.kind \in kinds

\* C21: expr2nx never raises; when it gives the text of the Expr or a
\* collection of links it has logged a warning, and when it gives a value or a
\* single link it has logged none.
C21_NeverRaisesWarnsOnFallback ==
  resolved # <<>> =>
    /\ Returns({"value", "link", "NXcollection", "str"})
    /\ Returns({"str", "NXcollection"}) => resolved.result.warned
    /\ Returns({"value", "link"}) => ~resolved.result.warned

\* the part of it that the code keeps: a value or a single link comes
\* without a warning, a collection of links with one, and nothing is raised
\* for an Expr that depends on no instrument parameter named 'expression'
C21_WarnsOnLinkBundleOnly ==
  resolved # <<>> =>
    /\ "expression" \notin Dependencies(resolved.quantity)
         => Returns({"value", "link", "NXcollection", "str"})
    /\ Returns({"NXcollection"}) => resolved.result.warned
    /\ Returns({"value", "link", "str"}) => ~resolved.result.warned

\* mon0 AT (0, 0, 9) RELATIVE source has been synthesized by impl, in the line
\* whose origin and source, both placed at (0, 0, 0), have no chain
Scenario(impl) ==
  /\ call # <<>>
  /\ call.impl = impl
  /\ call.inst.name = "mon0"
  /\ call.inst.at_rel = "source"
  /\ call.inst.rot_rel = "source"
  /\ call.inst.position = <<ConstantTranslation>>
  /\ call.inst.rot = <<>>
  /\ {"origin", "source"} \subseteq DOMAIN nx
  /\ ~HasChain("origin")
  /\ ~HasChain("source")

\* the one translation along z by 9 m, under the name mon0_t0, that depends on dep
OnlyMon0_t0(dep) ==
  /\ call.result.raised = "none"
  /\ chain = <<Named(<<"mon0", "_", "t", "0">>,
                     [value |-> Resolution("value", 9, <<>>, <<>>, <<>>, FALSE),
                      vector |-> <<0, 0, 1>>,
                      depends_on |-> dep,
                      transformation_type |-> "translation",
                      units |-> <<"m">>])>>

\* C22: in the line origin, source, mon0, the synthesis of mon0 gives exactly
\* one node, mon0_t0, a translation along (0, 0, 1) by 9 m, which depends on
\* the absolute path of source.
C22_Mon0OnSource == Scenario("NXInstr") => OnlyMon0_t0(abs_ref("source"))

\* C22 as the code has it: the node is the one described, but in
\* NXInstr.make_transformations it depends on '.', since source has no
\* dependency of its own; only NXMcCode.transformations gives the absolute path
\* of source.
C22_Mon0OnDot ==
  /\ Scenario("NXInstr") => OnlyMon0_t0(Dot)
  /\ Scenario("NXMcCode") => OnlyMon0_t0(abs_ref("source"))

C22_Witness == Scenario("NXInstr") /\ OnlyMon0_t0(Dot)

C22_WitnessMcCode == Scenario("NXMcCode") /\ OnlyMon0_t0(abs_ref("source"))

\* the names of the components, in declaration order
names == [i \in 1..Len(components) |-> components[i].name]

UniquelyNamed == \A i, j \in 1..Len(names) : names[i] = names[j] => i = j

\* the nodes reached from the nodes of from over at least one edge and at
\* most k edges
RECURSIVE Reached(_, _, _)
Reached(graph, from, k) ==
  LET next == UNION {adjacent(graph, a) : a \in from}
  IN  IF k = 0 THEN {} ELSE next \cup Reached(graph, next, k - 1)

Acyclic(graph) == \A a \in graph.nodes : a \notin Reached(graph, {a}, Cardinality(graph.nodes))

\* the graph with exactly the edges from each component to the next, of which
\* ins(name) and outs(name) are the ends of the edges into and out of a node
Linear(graph, ins(_), outs(_)) ==
  /\ graph.nodes = {names[i] : i \in 1..Len(names)}
  /\ graph.edges = {<<names[i], names[i + 1]>> : i \in 1..(Len(names) - 1)}
  /\ \A i \in 1..Len(names) :
       /\ ins(names[i]) = (IF i > 1 THEN {names[i - 1]} ELSE {})
       /\ outs(names[i]) = (IF i < Len(names) THEN {names[i + 1]} ELSE {})
  /\ Acyclic(graph)
  /\ \A a, b \in graph.nodes : b \in outs(a) <=> a \in ins(b)

\* C23: over uniquely named components the graphs built at construction have
\* exactly the edges from each component to the one declared after it: the
\* inputs of a component are the one before it (none for the first), its
\* outputs the one after it (none for the last), the graph has no cycle, and b
\* is an output of a exactly when a is an input of b.
C23_LinearGraph ==
  /\ (forward_graph # Unset /\ UniquelyNamed) => Linear(forward_graph, inputs, outputs)
  /\ (mccode # Unset /\ UniquelyNamed) => Linear(mccode.graph, mccode_inputs, mccode_outputs)

C23_Witness ==
  /\ forward_graph # Unset
  /\ mccode # Unset
  /\ UniquelyNamed
  /\ Len(components) = 3
  /\ inputs(names[3]) = {names[2]}
  /\ mccode_outputs(names[1]) = {names[2]}

\* the components that qualify as origin for the constructor called last, in
\* declaration order: those of the requested name, or the samples when no name
\* is requested (for NXMcCode the empty name requests none)
Qualifying ==
  LET by_name == IF call.impl = "NXInstr" THEN call.origin_name # None
                 ELSE call.origin_name \notin {None, <<>>}
  IN  {i \in 1..Len(components) :
         IF by_name THEN components[i].name = call.origin_name
         ELSE components[i].category = "samples"}

First(S) == CHOOSE i \in S : \A j \in S : i <= j

\* the constructor called last has logged exactly one diagnostic, of one of
\* these levels
LoggedLast(impl, levels) ==
  /\ Len(SelectSeq(log, LAMBDA l : l.by = impl)) = 1
  /\ log # <<>>
  /\ log[Len(log)].by = impl
  /\ log[Len(log)].level \in levels

C24_WitnessNone ==
  /\ call # <<>>
  /\ call.impl = "NXInstr"
  /\ call.origin_name = <<"z", "z">>
  /\ Len(components) = 2
  /\ origin = Orient
  /\ log = <<Logged("NXInstr", "warn", "no component named")>>

\* the call at hand is a lookup of a path of segments none of which starts with '@'
ChildLookup ==
  /\ last.op = "getitem"
  /\ strip(last.path) # <<>>
  /\ \A i \in 1..Len(parts_of_last) : ~startswith_at(parts_of_last[i])

\* the children of record n that bear the name s: groups by their name,
\* datasets and links by the name of their config
Bearing(n, s) ==
  {c \in 1..Len(structure) :
     /\ structure[c].parent = n
     /\ structure[c].kind \in {"group", "dataset", "link"}
     /\ structure[c].name = s}

\* the record reached from n by going, segment after segment, to the first
\* child in document order that bears the segment; NoNode when there is none
RECURSIVE Descended(_, _)
Descended(n, parts) ==
  IF parts = <<>> THEN n
  ELSE IF Bearing(n, Head(parts)) = {} THEN NoNode
  ELSE Descended(First(Bearing(n, Head(parts))), Tail(parts))

\* C25: a segment that does not start with '@' is matched against the name of
\* a group child and against the config name of a dataset or link child; of
\* the children that bear the name the first in document order is used,
\* whatever its kind.
C25_FirstChildInDocumentOrder ==
  ChildLookup =>
    IF Descended(last.self, parts_of_last) = NoNode
    THEN last.res.type = "KeyError" /\ last.res.err = "not_found"
    ELSE last.res.type # "KeyError" /\ last.res.node = Descended(last.self, parts_of_last)

\* a dataset and, after it, a group bear the name: lookup gives the dataset
C25_Witness ==
  /\ ChildLookup
  /\ Len(parts_of_last) = 1
  /\ last.res.type = "raw"
  /\ structure[last.res.node].kind = "dataset"
  /\ \E g \in Bearing(last.self, parts_of_last[1]) :
       g > last.res.node /\ structure[g].kind = "group"

\* lookup has failed with the not-found error at a segment that names a child
ChildNotFound ==
  /\ last.op = "getitem"
  /\ last.res.type = "KeyError"
  /\ last.res.err = "not_found"
  /\ ~startswith_at(last.res.component)

\* the depth of the segment at which no child bears the name
failing_depth ==
  CHOOSE k \in 1..Len(parts_of_last) :
    /\ Descended(last.self, SubSeq(parts_of_last, 1, k)) = NoNode
    /\ Descended(last.self, SubSeq(parts_of_last, 1, k - 1)) # NoNode

\* C26: when lookup fails with the not-found error at the segment sk, at
\* whatever depth k, the error names sk and carries the path s1/.../sk gone so
\* far.
C26_ErrorCarriesPathSoFar ==
  ChildNotFound =>
    /\ last.res.component = parts_of_last[failing_depth]
    /\ last.res.at = <<"/">> \o join(SubSeq(parts_of_last, 1, failing_depth))

\* what the code keeps of it: the error names sk, and what it carries as the
\* path is the segment sk alone, which is the path gone so far at depth 1 only
C26_ErrorCarriesFailingSegment ==
  ChildNotFound =>
    /\ last.res.component = parts_of_last[failing_depth]
    /\ last.res.at = <<"/">> \o parts_of_last[failing_depth]

\* a failure at the second segment
C26_WitnessDepth2 ==
  /\ ChildNotFound
  /\ failing_depth = 2
  /\ last.res.at = <<"/">> \o parts_of_last[2]

\* the name <component>_<letter><index> and, when there is one, its suffix
WellFormedName(n) ==
  /\ Len(n.name) \in {4, 6}
  /\ n.name[2] = "_"
  /\ n.name[3] \in {"t", "r"}
  /\ n.name[4] \in {str_int(i) : i \in 0..9}
  /\ Len(n.name) = 6 => n.name[5] = "_"

\* the letter of the kind of a node
KindLetter(n) == IF n.field.transformation_type = "translation" THEN "t" ELSE "r"

\* the stack a letter stands for
StackOf(letter) == IF letter = "t" THEN call.inst.position ELSE call.inst.rot

\* the number of nodes the non-zero Parts of a stack give
RECURSIVE NodeTotal(_)
NodeTotal(stack) ==
  IF stack = <<>> THEN 0
  ELSE (IF is_translation(Head(stack)) \/ is_rotation(Head(stack)) THEN NodeCount(Head(stack)) ELSE 0)
         + NodeTotal(Tail(stack))

\* the nodes that were made, before they were put in the dict
NodesMade ==
  NodeTotal(call.inst.position) + NodeTotal(call.inst.rot)
    + (IF call.inst.at_rel = Absolute /\ call.inst.rot_rel # Absolute
       THEN NodeTotal(call.inst.ref_rot) ELSE 0)

\* C27: every node is named <component>_<letter><index>, with an axis suffix
\* or without, for the component that is synthesized, with the letter t for
\* a translation node and r for a rotation node and with the index of a
\* non-zero Part of the stack of that letter; the nodes have pairwise
\* different names, so that the dict has them all.
C27_NamedByKind ==
  Emitted =>
    /\ \A i \in 1..Len(chain) :
         /\ WellFormedName(chain[i])
         /\ chain[i].name[1] = call.inst.name
         /\ chain[i].name[3] = KindLetter(chain[i])
         /\ \E k \in 1..Len(StackOf(chain[i].name[3])) : chain[i].name[4] = str_int(k - 1)
         /\ Len(chain[i].name) = 6 => chain[i].name[6] \in {"x", "y", "z"}
    /\ Len(chain) = NodesMade

\* the names the non-zero Parts of a stack give to their nodes: the name of
\* the Part for a rotation and for a translation by plain numbers, the name
\* with the suffix of each non-zero axis for a translation with a symbolic
\* component, and the name with the suffix _r for the rotation of a Part that
\* also translates
NamesOf(owner, letter, stack) ==
  UNION {LET o == stack[k]
             base == <<owner, "_", letter, str_int(k - 1)>>
         IN  IF is_translation(o)
             THEN (IF \E i \in 1..3 : o.pos[i].expr
                   THEN {base \o <<"_", <<"x", "y", "z">>[i]>> : i \in {j \in 1..3 : ~is_zero(o.pos[j])}}
                   ELSE {base})
                    \cup (IF is_rotation(o) THEN {base \o <<"_", "r">>} ELSE {})
             ELSE IF is_rotation(o) THEN {base}
             ELSE {} : k \in 1..Len(stack)}

\* C27 as the code has it: the letter is that of the stack the Part is in, t
\* for the position stack and r for the rotation stack, whatever the kind of
\* the node; the suffix is that of an axis or, for the rotation of a Part that
\* also translates, _r; with an absolute position and a relative rotation the
\* rotation nodes of the reference bear the name of the reference; the nodes
\* have pairwise different names, and the dict has them all, unless the
\* component is placed absolutely and rotated relative to itself.
C27_NamedByStack ==
  Emitted =>
    /\ {chain[i].name : i \in 1..Len(chain)} =
         NamesOf(call.inst.name, "t", call.inst.position)
           \cup NamesOf(call.inst.name, "r", call.inst.rot)
           \cup (IF call.inst.at_rel = Absolute /\ call.inst.rot_rel # Absolute
                 THEN NamesOf(call.inst.rot_rel, "r", call.inst.ref_rot) ELSE {})
    /\ \A i \in 1..Len(chain) : WellFormedName(chain[i])
    /\ ~RotatedOnItself => Len(chain) = NodesMade

\* a rotation of the position stack, named with t, and a rotation of the
\* rotation stack, named with r
C27_Witness ==
  /\ Emitted
  /\ call.inst.position = <<ConstantTranslation, Rotation>>
  /\ Len(chain) = 2
  /\ chain[2].name = <<call.inst.name, "_", "t", "1">>
  /\ chain[2].field.transformation_type = "rotation"

\* the rotation nodes of the reference in the chain of the component
C27_WitnessReference ==
  /\ Emitted
  /\ call.inst.name = "mon0"
  /\ call.inst.at_rel = Absolute
  /\ call.inst.rot_rel = "source"
  /\ Len(chain) = 2
  /\ chain[1].name = <<"source", "_", "r", "0">>
  /\ chain[2].name = <<"mon0", "_", "r", "0">>

\* the non-zero translations of the position stack of the call
Translating == {k \in 1..Len(call.inst.position) : is_translation(call.inst.position[k])}

\* the name of the k-th Part of the position stack
PartName(k) == <<call.inst.name, "_", "t", str_int(k - 1)>>

\* the translation nodes of the k-th Part of the position stack, as emitted
TranslationNodes(k) ==
  SelectSeq(chain, LAMBDA n : /\ SubSeq(n.name, 1, 4) = PartName(k)
                              /\ n.field.transformation_type = "translation")

\* what the node depends on when it follows its predecessor: the node
\* emitted before it, or what the chain came in with
Predecessor(n) ==
  LET i == CHOOSE j \in 1..Len(chain) : chain[j].name = n.name
  IN  IF i = 1 THEN Incoming ELSE chain[i - 1].name

\* one node per non-zero axis, with the suffix of the axis, along the axis by
\* the component, x then y then z, the first after the predecessor of the Part
\* and each later one after the one before it
SplitByAxis(k) ==
  LET pos == call.inst.position[k].pos
      axes == SelectSeq(<<1, 2, 3>>, LAMBDA i : ~is_zero(pos[i]))
      nodes == TranslationNodes(k)
  IN  /\ Len(nodes) = Len(axes)
      /\ \A j \in 1..Len(nodes) :
           /\ nodes[j].name = PartName(k) \o <<"_", <<"x", "y", "z">>[axes[j]]>>
           /\ nodes[j].field.vector = [i \in 1..3 |-> IF i = axes[j] THEN 1 ELSE 0]
           /\ nodes[j].field.depends_on =
                IF j = 1 THEN Predecessor(nodes[1]) ELSE nodes[j - 1].name

\* one node, by the magnitude of the vector along its unit direction
Collapsed(k) ==
  LET pos == call.inst.position[k].pos
      nodes == TranslationNodes(k)
  IN  /\ Len(nodes) = 1
      /\ nodes[1].name = PartName(k)
      /\ nodes[1].field.value.kind = "value"
      /\ nodes[1].field.value.num * nodes[1].field.value.num
           = pos[1].num * pos[1].num + pos[2].num * pos[2].num + pos[3].num * pos[3].num
      /\ \A i \in 1..3 : nodes[1].field.vector[i] * nodes[1].field.value.num = pos[i].num
      /\ nodes[1].field.depends_on = Predecessor(nodes[1])

\* the chain of a component placed absolutely or relative to one reference
Chain == Emitted /\ (SameReference \/ BothAbsolute)

\* C28: a translation whose components are not all constant gives one node
\* per non-zero axis, with the suffix _x, _y or _z, chained x then y then z
\* after the predecessor of the Part; a translation of constants gives a
\* single node by the magnitude of the vector along its unit direction.
C28_SplitUnlessConstant ==
  Chain =>
    \A k \in Translating :
       IF \E i \in 1..3 : ~is_constant(call.inst.position[k].pos[i])
       THEN SplitByAxis(k)
       ELSE Collapsed(k)

\* C28 as the code has it: the translation is split by axis when a component
\* of its vector is held as an Expr, be it a constant one, and collapses to a
\* single node when all three are plain numbers.
C28_SplitWhenExpr ==
  Chain =>
    \A k \in Translating :
       IF \E i \in 1..3 : call.inst.position[k].pos[i].expr
       THEN SplitByAxis(k)
       ELSE Collapsed(k)

\* a translation by plain numbers and then one by constant Exprs, which is
\* split into its y and z node
C28_Witness ==
  /\ Chain
  /\ call.inst.position = <<ConstantTranslation, ExprTranslation>>
  /\ Len(chain) = 3
  /\ Collapsed(1)
  /\ SplitByAxis(2)
  /\ chain[2].name = PartName(2) \o <<"_", "y">>
  /\ chain[3].field.depends_on = chain[2].name

\* a translation with a symbolic component, split into its x and z node
C28_WitnessSymbolic ==
  /\ Chain
  /\ call.inst.position = <<SymbolicTranslation>>
  /\ Len(chain) = 2
  /\ SplitByAxis(1)

\* the records at or below the wrapped record to which the segments of the
\* path lead by name, over whichever children
LedTo ==
  {m \in 1..Len(structure) :
     /\ InSubtree(structure, last.self, m)
     /\ SegmentsTo(last.self, m) = parts_of_last}

\* the record reached from n by going to the first child that bears the
\* segment and, at a last segment '@name', to the first attribute record of
\* the name; NoNode when there is none
RECURSIVE Followed(_, _)
Followed(n, parts) ==
  IF parts = <<>> THEN n
  ELSE IF startswith_at(Head(parts))
  THEN (IF Tail(parts) = <<>> /\ named_attributes(n, Tail(Head(parts))) # <<>>
        THEN Head(named_attributes(n, Tail(Head(parts))))
        ELSE NoNode)
  ELSE IF Bearing(n, Head(parts)) = {} THEN NoNode
  ELSE Followed(First(Bearing(n, Head(parts))), Tail(parts))

\* the path of the call has no segment after an '@' segment, a first child
\* bearing a segment has not the rest of the path below it, but a later one
\* has
FirstChildLacksRest ==
  /\ strip(last.path) # <<>>
  /\ ~Malformed(last.path)
  /\ Followed(last.self, parts_of_last) = NoNode
  /\ LedTo # {}

\* C29: lookup commits, at each level, to the first child in document order
\* that bears the segment: when the rest of the path is not below it, lookup
\* fails with the not-found error, exists gives False and get the default,
\* though a later child of the same name has it; and so a path that get_path,
\* which goes on to the later children, gives for a record fails in lookup only
\* when lookup has committed to an earlier child, and may resolve to another
\* record.
C29_LookupNeverBacktracks ==
  /\ (last.op = "getitem" /\ FirstChildLacksRest) =>
       (last.res.type = "KeyError" /\ last.res.err = "not_found")
  /\ (last.op = "exists" /\ FirstChildLacksRest) => ~last.flag
  /\ (last.op = "get" /\ FirstChildLacksRest) => last.res = last.arg
  /\ (last.op = "round_trip" /\ last.res.type = "KeyError") =>
       (FirstChildLacksRest /\ last.element \in LedTo)

\* get_path has given the path of a record below the second of two children
\* of one name, and lookup of that path has failed
C29_Witness ==
  /\ last.op = "round_trip"
  /\ last.res.type = "KeyError"
  /\ last.res.err = "not_found"
  /\ FirstChildLacksRest
  /\ last.element \in LedTo
  /\ Len(parts_of_last) = 2

\* lookup of the path get_path gave has resolved to another record
C29_WitnessOtherRecord ==
  /\ last.op = "round_trip"
  /\ last.res.type # "KeyError"
  /\ last.res.node # last.element
  /\ last.element \in LedTo

\* lookup of a path has failed though a record of that path is in the tree
C29_WitnessLookup == last.op = "getitem" /\ FirstChildLacksRest /\ last.res.type = "KeyError"

\* relative position, absolute rotation
RelativeAbsolute ==
  /\ call # <<>>
  /\ call.inst.at_rel # Absolute
  /\ call.inst.rot_rel = Absolute

\* C30: a component placed relative to a component and rotated absolutely
\* always raises a fatal error and gives no chain, whatever its position, its
\* rotation and its reference, in NXInstr.make_transformations, after which
\* the construction is over, and in NXMcCode.transformations.
C30_RelativeAbsoluteFatal ==
  RelativeAbsolute =>
    /\ Fatal
    /\ mccode_transformations(call.inst).raised = "RuntimeError"
    /\ mccode_transformations(call.inst).trans = <<>>

\* the second component, with a symbolic translation relative to the first
\* and an absolute rotation, has raised
C30_Witness ==
  /\ RelativeAbsolute
  /\ call.impl = "NXInstr"
  /\ call.inst.name = "mon0"
  /\ call.inst.at_rel = "source"
  /\ call.inst.position = <<SymbolicTranslation>>
  /\ call.inst.rot = <<Rotation>>
  /\ call.result.warned
  /\ Fatal

====
